---- MODULE Spec2Model ----
(***************************************************************************)
(* Transcript row model of the Cantonese AI transcriber: the parser that   *)
(* derives typed rows from the raw transcript text, the offset correction  *)
(* across file separators, the TXT / CSV / SRT exporters, the CSV importer *)
(* and the row edit operations of the transcription view.                  *)
(*                                                                         *)
(* A string is a sequence of one-character strings, so that the regular    *)
(* expressions, trims, splits and joins of the source are computed         *)
(* character by character.                                                 *)
(***************************************************************************)
EXTENDS Integers, Sequences, FiniteSets, TLC

(***************************************************************************)
(* Characters                                                              *)
(***************************************************************************)
NL == "\n"

CR == "\r"

Quote == "\""

\* the code unit 0xFEFF (byte-order mark)
BOM == "\\uFEFF"

Digits == {"0", "1", "2", "3", "4", "5", "6", "7", "8", "9"}

\* the characters matched by \s and removed by String.prototype.trim
Whitespace == {" ", "\t", "\r"}

IsDigit(c) == c \in Digits

IsSpace(c) == c \in Whitespace

DigitVal(c) ==
    CASE c = "0" -> 0 [] c = "1" -> 1 [] c = "2" -> 2 [] c = "3" -> 3
      [] c = "4" -> 4 [] c = "5" -> 5 [] c = "6" -> 6 [] c = "7" -> 7
      [] c = "8" -> 8 [] c = "9" -> 9

DigitChar(d) ==
    CASE d = 0 -> "0" [] d = 1 -> "1" [] d = 2 -> "2" [] d = 3 -> "3"
      [] d = 4 -> "4" [] d = 5 -> "5" [] d = 6 -> "6" [] d = 7 -> "7"
      [] d = 8 -> "8" [] d = 9 -> "9"

\* String.prototype.toLowerCase on one character of the alphabet in use
LowerChar(c) ==
    CASE c = "A" -> "a" [] c = "B" -> "b" [] c = "P" -> "p" [] c = "S" -> "s"
      [] c = "T" -> "t" [] OTHER -> c

toLowerCase(s) == [k \in 1..Len(s) |-> LowerChar(s[k])]

(***************************************************************************)
(* Evaluation helpers                                                      *)
(***************************************************************************)
\* F(v), with v evaluated once and F applied to its value
With(v, F(_)) == CHOOSE r \in {F(x) : x \in {v}} : TRUE

\* the least and the greatest element of a non-empty set of integers
Min(S) == CHOOSE k \in S : \A j \in S : k <= j

Max(S) == CHOOSE k \in S : \A j \in S : j <= k

\* the j-th smallest element of a set of integers
Nth(S, j) == CHOOSE k \in S : Cardinality({i \in S : i < k}) = j - 1

(***************************************************************************)
(* String helpers, after the methods of String.prototype                   *)
(***************************************************************************)
\* s.slice(p - 1): the suffix of s that starts at 1-based position p
From(s, p) == SubSeq(s, p, Len(s))

\* s.startsWith(pre, p - 1)
StartsWithAt(s, p, pre) ==
    /\ p + Len(pre) - 1 <= Len(s)
    /\ SubSeq(s, p, p + Len(pre) - 1) = pre

startsWith(s, pre) == StartsWithAt(s, 1, pre)

\* position of the first character at or after p that is not whitespace
\* (the greedy \s* of the regular expressions), Len(s) + 1 if none
SkipSpaces(s, p) ==
    CHOOSE k \in p..(Len(s) + 1) :
        /\ k > Len(s) \/ ~IsSpace(s[k])
        /\ \A j \in p..(k - 1) : IsSpace(s[j])

\* position of the last character at or before p that is not whitespace
SkipSpacesBack(s, p) ==
    p - (CHOOSE d \in 0..p :
            /\ d = p \/ ~IsSpace(s[p - d])
            /\ \A j \in (p - d + 1)..p : IsSpace(s[j]))

trim(s) == SubSeq(s, SkipSpaces(s, 1), SkipSpacesBack(s, Len(s)))

\* s.split(c) for a one-character separator c: the pieces between the
\* positions of c
split(s, c) ==
    With({k \in 1..Len(s) : s[k] = c}, LAMBDA at :
        LET n        == Cardinality(at)
            first(i) == IF i = 1 THEN 1 ELSE Nth(at, i - 1) + 1
            last(i)  == IF i = n + 1 THEN Len(s) ELSE Nth(at, i) - 1
        IN  <<>> \o [i \in 1..(n + 1) |-> SubSeq(s, first(i), last(i))])

\* parts.join(sep), from part k on
RECURSIVE JoinFrom(_, _, _)
JoinFrom(parts, sep, k) ==
    IF k > Len(parts) THEN <<>>
    ELSE IF k = Len(parts) THEN parts[k]
    ELSE parts[k] \o sep \o JoinFrom(parts, sep, k + 1)

join(parts, sep) == JoinFrom(parts, sep, 1)

\* s.indexOf(c, p - 1) as a 1-based position, 0 if c does not occur
IndexOfChar(s, c, p) ==
    With({k \in p..Len(s) : s[k] = c}, LAMBDA at :
        IF at = {} THEN 0 ELSE Min(at))

\* the end of the longest run that "." of a regular expression can match
\* from position p: the position of the first line terminator at or after
\* p, Len(s) + 1 if there is none
DotEnd(s, p) ==
    With({k \in p..Len(s) : s[k] \in {NL, CR}}, LAMBDA at :
        IF at = {} THEN Len(s) + 1 ELSE Min(at))

\* s.replace(/pat/g, '') for a literal pattern pat: the characters of s that
\* lie in no match, the matches being taken from left to right
RECURSIVE MatchStarts(_, _, _)
MatchStarts(s, pat, p) ==
    IF p > Len(s) THEN {}
    ELSE IF StartsWithAt(s, p, pat) THEN {p} \cup MatchStarts(s, pat, p + Len(pat))
    ELSE MatchStarts(s, pat, p + 1)

RemoveAll(s, pat) ==
    With(MatchStarts(s, pat, 1), LAMBDA starts :
        With({k \in 1..Len(s) : \A m \in starts : k < m \/ k >= m + Len(pat)},
             LAMBDA kept :
                 <<>> \o [i \in 1..Cardinality(kept) |-> s[Nth(kept, i)]]))

(***************************************************************************)
(* Time helpers                                                            *)
(***************************************************************************)
NaN == -1

\* Number(part) on the characters in use: surrounding whitespace is ignored,
\* the empty string is 0, a run of digits is its decimal value and anything
\* else is NaN
RECURSIVE DecimalFrom(_, _, _)
DecimalFrom(s, k, acc) ==
    IF k > Len(s) THEN acc
    ELSE IF IsDigit(s[k]) THEN DecimalFrom(s, k + 1, acc * 10 + DigitVal(s[k]))
    ELSE NaN

Number(part) == With(trim(part), LAMBDA digits : DecimalFrom(digits, 1, 0))

parseTimeToSeconds(timeStr) ==
    IF Len(timeStr) = 0 THEN 0
    ELSE With(split(timeStr, ":"), LAMBDA parts :
         With(<<>> \o [k \in 1..Len(parts) |-> Number(parts[k])], LAMBDA nums :
             IF \E k \in 1..Len(nums) : nums[k] = NaN THEN 0
             ELSE IF Len(nums) = 3 THEN nums[1] * 3600 + nums[2] * 60 + nums[3]
             ELSE IF Len(nums) = 2 THEN nums[1] * 60 + nums[2]
             ELSE 0))

\* n.toString() for a natural number n
RECURSIVE toString(_)
toString(n) ==
    IF n < 10 THEN <<DigitChar(n)>>
    ELSE Append(toString(n \div 10), DigitChar(n % 10))

\* variant of padStart that pads nothing
padStartNothing(s, w) == s

\* s.padStart(w, '0')
padStart(s, w) ==
    IF Len(s) >= w THEN s ELSE [k \in 1..(w - Len(s)) |-> "0"] \o s

\* n.toString().padStart(w, '0')
Padded(n, w) == With(toString(n), LAMBDA digits : padStart(digits, w))

formatSecondsToTime(totalSeconds) ==
    LET h == totalSeconds \div 3600
        m == (totalSeconds % 3600) \div 60
        s == totalSeconds % 60
    IN  IF h > 0
        THEN Padded(h, 2) \o <<":">> \o Padded(m, 2) \o <<":">> \o Padded(s, 2)
        ELSE Padded(m, 2) \o <<":">> \o Padded(s, 2)

formatSecondsToSRTTimestamp(totalSeconds) ==
    LET hours        == totalSeconds \div 3600
        minutes      == (totalSeconds % 3600) \div 60
        seconds      == totalSeconds % 60
        \* Math.round((totalSeconds % 1) * 1000): seconds are whole numbers
        milliseconds == 0
    IN  Padded(hours, 2) \o <<":">> \o Padded(minutes, 2) \o <<":">>
          \o Padded(seconds, 2) \o <<",">> \o Padded(milliseconds, 3)

\* the length of the match of \d{1,2}:\d{2}(?::\d{2})? at position p of s,
\* 0 if the pattern does not match there
TimeLenAt(s, p) ==
    LET d(k) == k <= Len(s) /\ IsDigit(s[k])
        c(k) == k <= Len(s) /\ s[k] = ":"
    IN  \* the position of the colon that ends \d{1,2}:, 0 if there is none
        With(IF d(p) /\ d(p + 1) /\ c(p + 2) THEN p + 2
             ELSE IF d(p) /\ c(p + 1) THEN p + 1
             ELSE 0,
             LAMBDA colon :
                 IF colon = 0 \/ ~(d(colon + 1) /\ d(colon + 2)) THEN 0
                 ELSE IF c(colon + 3) /\ d(colon + 4) /\ d(colon + 5)
                 THEN colon + 5 - p + 1
                 ELSE colon + 2 - p + 1)

(***************************************************************************)
(* The two copies of the transcription view in the repository.  App.tsx    *)
(* imports components/TranscriptionView.tsx; unnamed/part_002 is the copy  *)
(* without the speaker map.  They differ in the segment pattern, in the    *)
(* speaker mapping and in the time branch of updateRow.                    *)
(***************************************************************************)
ViewComponents == "components/TranscriptionView.tsx"

ViewPart002 == "unnamed/part_002"

Views == {ViewComponents, ViewPart002}

(***************************************************************************)
(* Literals                                                                *)
(***************************************************************************)
StartMarker == <<"S", "t", "a", "r", "t", ":">>

SeparatorPrefix == <<"-", "-", "-", " ", "[">>

Dashes == <<"-", "-", "-">>

Bold == <<"*", "*">>

NoMatch == <<>>

(***************************************************************************)
(* The parser: rows (useMemo)                                              *)
(***************************************************************************)
\* trimmed.match(/Start:\s*(\d{1,2}:\d{2}(?::\d{2})?)/): the captured time of
\* the leftmost match, NoMatch if there is none
separatorMatch(trimmed) ==
    LET timeAt(p) == SkipSpaces(trimmed, p + Len(StartMarker))
    IN  With({p \in 1..Len(trimmed) :
                 /\ trimmed[p] = StartMarker[1]
                 /\ StartsWithAt(trimmed, p, StartMarker)
                 /\ \E t \in {timeAt(p)} : TimeLenAt(trimmed, t) > 0},
             LAMBDA at :
                 IF at = {} THEN NoMatch
                 ELSE With(Min(at), LAMBDA p0 :
                      With(timeAt(p0), LAMBDA t :
                          SubSeq(trimmed, t, t + TimeLenAt(trimmed, t) - 1))))

NoGroup(q) == [ok |-> FALSE, speaker |-> <<>>, next |-> q]

\* the optional speaker group of components/TranscriptionView.tsx at
\* position q: (?:(?:\*\*)?([^*:]+?)(?:\*\*)?:)?
SpeakerGroupComponents(s, q) ==
    LET stop(k) == k > Len(s) \/ s[k] \in {"*", ":"}
    IN  With(IF StartsWithAt(s, q, Bold) THEN q + 2 ELSE q, LAMBDA q1 :
        With(CHOOSE k \in q1..(Len(s) + 1) :
                 stop(k) /\ \A j \in q1..(k - 1) : ~stop(j),
             LAMBDA e :
                 IF /\ e > q1
                    /\ \/ StartsWithAt(s, e, <<":">>)
                       \/ StartsWithAt(s, e, Bold \o <<":">>)
                 THEN [ok |-> TRUE, speaker |-> SubSeq(s, q1, e - 1),
                       next |-> IF s[e] = ":" THEN e + 1 ELSE e + 3]
                 ELSE NoGroup(q)))

\* the optional speaker group of unnamed/part_002 at position q: (?:(.*?):)?
SpeakerGroupPart002(s, q) ==
    With(IndexOfChar(s, ":", q), LAMBDA c :
        IF c > 0 /\ c < DotEnd(s, q)
        THEN [ok |-> TRUE, speaker |-> SubSeq(s, q, c - 1), next |-> c + 1]
        ELSE NoGroup(q))

\* the optional range group (?:\s*-\s*(TIME))? at position p1, taken when it
\* matches and is followed by "]": where the second time starts and how long
\* it is
RangeGroup(line, p1) ==
    With(SkipSpaces(line, p1), LAMBDA dash :
        IF ~StartsWithAt(line, dash, <<"-">>)
        THEN [ok |-> FALSE, first |-> 0, len |-> 0]
        ELSE With(SkipSpaces(line, dash + 1), LAMBDA r :
             With(TimeLenAt(line, r), LAMBDA len2 :
                 [ok    |-> len2 > 0 /\ StartsWithAt(line, r + len2, <<"]">>),
                  first |-> r,
                  len   |-> len2])))

NoSegment ==
    [ok |-> FALSE, rawStartTime |-> <<>>, rawEndTime |-> NoMatch,
     speaker |-> <<>>, content |-> <<>>]

\* \s*(SPEAKER:)?\s*(.*) from position q0, after the closing bracket
SegmentTail(line, view, q0, rawStartTime, rawEndTime) ==
    With(SkipSpaces(line, q0), LAMBDA q :
    With(IF view = ViewComponents THEN SpeakerGroupComponents(line, q)
         ELSE SpeakerGroupPart002(line, q),
         LAMBDA grp :
    With(SkipSpaces(line, grp.next), LAMBDA c :
        [ok           |-> TRUE,
         rawStartTime |-> rawStartTime,
         rawEndTime   |-> rawEndTime,
         speaker      |-> grp.speaker,
         content      |-> SubSeq(line, c, DotEnd(line, c) - 1)])))

\* line.match(/^\[(TIME)(?:\s*-\s*(TIME))?\]\s*(SPEAKER:)?\s*(.*)/) with the
\* speaker group of the given view; rawEndTime is NoMatch when the range
\* group did not take part in the match
SegmentMatch(line, view) ==
    With(IF Len(line) >= 1 /\ line[1] = "[" THEN TimeLenAt(line, 2) ELSE 0,
         LAMBDA len1 :
    IF len1 = 0 THEN NoSegment
    ELSE With(RangeGroup(line, 2 + len1), LAMBDA range :
         With(IF range.ok THEN range.first + range.len ELSE 2 + len1,
              LAMBDA close :
         IF ~StartsWithAt(line, close, <<"]">>) THEN NoSegment
         ELSE With(SubSeq(line, 2, 1 + len1), LAMBDA rawStartTime :
              With(IF range.ok
                   THEN SubSeq(line, range.first, range.first + range.len - 1)
                   ELSE NoMatch,
                   LAMBDA rawEndTime :
              SegmentTail(line, view, close + 1, rawStartTime, rawEndTime))))))

\* variant of SpeakerFind that compares the ids letter for letter
SpeakerFindExactCase(speakers, speaker) ==
    With({k \in 1..Len(speakers) : speakers[k].id = speaker}, LAMBDA hits :
        IF hits = {} THEN 0 ELSE Min(hits))

\* speakers.find(s => s.id.toLowerCase() === speaker.toLowerCase()): the
\* 1-based position of the first matching entry, 0 if there is none
SpeakerFind(speakers, speaker) ==
    With({k \in 1..Len(speakers) :
             toLowerCase(speakers[k].id) = toLowerCase(speaker)},
         LAMBDA hits : IF hits = {} THEN 0 ELSE Min(hits))

\* the speaker mapping block; part_002 has no speakers prop
MapSpeaker(speakers, speaker, view) ==
    IF view = ViewComponents /\ Len(speakers) > 0
    THEN With(SpeakerFind(speakers, speaker), LAMBDA found :
             IF found > 0 THEN speakers[found].name ELSE speaker)
    ELSE speaker

\* variant of OffsetAfterLine in which a separator adds its Start time to the
\* offset instead of replacing it
OffsetAccumulated(line, offset) ==
    With(trim(line), LAMBDA trimmed :
        IF ~startsWith(trimmed, SeparatorPrefix) THEN offset
        ELSE With(separatorMatch(trimmed), LAMBDA m :
                 IF m # NoMatch THEN offset + parseTimeToSeconds(m) ELSE offset))

\* the offset that holds after the line: the separator branch assigns it
OffsetAfterLine(line, offset) ==
    With(trim(line), LAMBDA trimmed :
        IF ~startsWith(trimmed, SeparatorPrefix) THEN offset
        ELSE With(separatorMatch(trimmed), LAMBDA m :
                 IF m # NoMatch THEN parseTimeToSeconds(m) ELSE offset))

\* formatSecondsToTime(parseTimeToSeconds(rawTime) + offset)
CorrectedTime(rawTime, offset) ==
    With(parseTimeToSeconds(rawTime) + offset, LAMBDA sec :
        formatSecondsToTime(sec))

\* newTimeStr: the corrected start time, and the corrected end time when the
\* line has one
NewTimeStr(match, offset) ==
    IF match.rawEndTime # NoMatch
    THEN CorrectedTime(match.rawStartTime, offset) \o <<" ", "-", " ">>
           \o CorrectedTime(match.rawEndTime, offset)
    ELSE CorrectedTime(match.rawStartTime, offset)

\* the row of a line that matches the segment pattern
SegmentRow(match, index, offset, speakers, view) ==
    With(MapSpeaker(speakers, match.speaker, view), LAMBDA speaker :
    With(NewTimeStr(match, offset), LAMBDA newTimeStr :
        [id      |-> index,
         type    |-> "segment",
         time    |-> newTimeStr,
         speaker |-> speaker,
         content |-> match.content,
         rawLine |-> <<"[">> \o newTimeStr \o <<"]", " ">>
                       \o (IF Len(speaker) > 0 THEN speaker \o <<":", " ">>
                           ELSE <<>>)
                       \o match.content]))

\* the row of a separator line: its content is the line without the dashes
SeparatorRow(line, trimmed, index) ==
    With(RemoveAll(trimmed, Dashes), LAMBDA stripped :
        [id |-> index, type |-> "separator", time |-> <<>>, speaker |-> <<>>,
         content |-> trim(stripped), rawLine |-> line])

\* the body of lines.map((line, index) => ...): the row of one line under
\* the offset in effect when the line is reached
ParseLine(line, index, offset, speakers, view) ==
    With(trim(line), LAMBDA trimmed :
        IF startsWith(trimmed, SeparatorPrefix)
        THEN SeparatorRow(line, trimmed, index)
        ELSE IF Len(trimmed) = 0
        THEN [id |-> index, type |-> "raw", time |-> <<>>, speaker |-> <<>>,
              content |-> <<>>, rawLine |-> line]
        ELSE With(SegmentMatch(line, view), LAMBDA match :
                 IF match.ok
                 THEN SegmentRow(match, index, offset, speakers, view)
                 ELSE [id |-> index, type |-> "raw", time |-> <<>>,
                       speaker |-> <<>>, content |-> line, rawLine |-> line]))

\* the values that currentOffsetSeconds takes during the map over the lines:
\* acc[k] when line k is reached (0 at the first line), the last element
\* after the last line
RECURSIVE OffsetsFrom(_, _, _)
OffsetsFrom(lines, k, acc) ==
    IF k > Len(lines) THEN acc
    ELSE With(Append(acc, OffsetAfterLine(lines[k], acc[Len(acc)])),
              LAMBDA acc1 : OffsetsFrom(lines, k + 1, acc1))

currentOffsetSeconds(lines) == OffsetsFrom(lines, 1, <<0>>)

\* variant of ParseLines that corrects every line by the offset of the last
\* separator of the text
ParseLinesFinalOffset(lines, speakers, view) ==
    With(currentOffsetSeconds(lines), LAMBDA offsets :
        <<>> \o [k \in 1..Len(lines) |->
            ParseLine(lines[k], k - 1, offsets[Len(lines) + 1], speakers, view)])

\* variant of ParseLines that numbers the rows from 1
ParseLinesIdsFromOne(lines, speakers, view) ==
    With(currentOffsetSeconds(lines), LAMBDA offsets :
        <<>> \o [k \in 1..Len(lines) |->
            ParseLine(lines[k], k, offsets[k], speakers, view)])

\* text.split('\n').map(...): one row per line, ids from 0
ParseLines(lines, speakers, view) ==
    With(currentOffsetSeconds(lines), LAMBDA offsets :
        <<>> \o [k \in 1..Len(lines) |->
            ParseLine(lines[k], k - 1, offsets[k], speakers, view)])

\* the value that useMemo computes for rows from its dependencies
useMemoRows(text, speakers, view) ==
    With(split(text, NL), LAMBDA lines : ParseLines(lines, speakers, view))

\* getProcessedText
getProcessedText(rs) ==
    With(<<>> \o [k \in 1..Len(rs) |-> rs[k].rawLine], LAMBDA ls :
        join(ls, <<NL>>))

(***************************************************************************)
(* CSV export: handleDownloadCSV                                           *)
(***************************************************************************)
\* the concatenation of a sequence of strings, from string k on
RECURSIVE FlattenFrom(_, _)
FlattenFrom(parts, k) ==
    IF k > Len(parts) THEN <<>> ELSE parts[k] \o FlattenFrom(parts, k + 1)

Flatten(parts) == FlattenFrom(parts, 1)

\* s.replace(/"/g, '""')
DoubleQuotes(s) ==
    With(<<>> \o [k \in 1..Len(s) |->
                     IF s[k] = Quote THEN <<Quote, Quote>> ELSE <<s[k]>>],
         LAMBDA parts : Flatten(parts))

CsvHeader == <<"T", "i", "m", "e", ",", "S", "p", "e", "a", "k", "e", "r", ",",
               "C", "o", "n", "t", "e", "n", "t">>

\* the line that rows.forEach appends for one row, without its "\n"
CsvLine(row) ==
    IF row.type = "segment"
    THEN <<Quote>> \o row.time \o <<Quote, ",", Quote>> \o row.speaker
           \o <<Quote, ",", Quote>> \o DoubleQuotes(row.content) \o <<Quote>>
    ELSE IF row.type = "separator"
    THEN <<",", ",", Quote>> \o DoubleQuotes(row.rawLine) \o <<Quote>>
    ELSE <<",", ",", Quote>> \o DoubleQuotes(row.content) \o <<Quote>>

CsvWritten(row) ==
    row.type \in {"segment", "separator"}
      \/ (row.type = "raw" /\ Len(trim(row.content)) > 0)

\* the file the browser saves from the data URI: what follows the
\* "data:text/csv;charset=utf-8," prefix of csvContent
handleDownloadCSV(rs) ==
    With(SelectSeq(rs, CsvWritten), LAMBDA written :
    With(<<>> \o [k \in 1..Len(written) |-> CsvLine(written[k]) \o <<NL>>],
         LAMBDA csvLines :
             <<BOM>> \o CsvHeader \o <<NL>> \o Flatten(csvLines)))

(***************************************************************************)
(* SRT export: handleDownloadSRT                                           *)
(***************************************************************************)
Arrow == <<" ", "-", "-", ">", " ">>

\* time.split('-').map(t => t.trim())
TimeParts(time) ==
    With(split(time, "-"), LAMBDA parts :
        <<>> \o [j \in 1..Len(parts) |-> trim(parts[j])])

SrtTimeParts(row) == TimeParts(row.time)

\* the two early returns of the forEach callback
SrtSkipped(row) ==
    \/ row.type # "segment"
    \/ \E timeParts \in {SrtTimeParts(row)} : Len(timeParts[1]) = 0

\* the end of a cue before the check against its start: the end time of the
\* row if it has one, 5 seconds after the start otherwise
SrtEndSec(timeParts, startSec) ==
    IF Len(timeParts) >= 2 /\ Len(timeParts[2]) > 0
    THEN parseTimeToSeconds(timeParts[2])
    ELSE startSec + 5

\* the cue block of a row with the given start and end
SrtBlock(row, counter, startSec, endSec) ==
    [counter |-> counter,
     row     |-> row.id,
     timing  |-> formatSecondsToSRTTimestamp(startSec) \o Arrow
                   \o formatSecondsToSRTTimestamp(endSec),
     text    |-> IF Len(row.speaker) > 0
                 THEN row.speaker \o <<":", " ">> \o row.content
                 ELSE row.content]

\* variant of SrtCue that keeps the end time of the row as it is
SrtCueEndUnchecked(row, counter) ==
    With(SrtTimeParts(row), LAMBDA timeParts :
    With(parseTimeToSeconds(timeParts[1]), LAMBDA startSec :
    With(SrtEndSec(timeParts, startSec), LAMBDA endSec :
        SrtBlock(row, counter, startSec, endSec))))

\* the cue that the forEach callback appends for a row it does not skip
SrtCue(row, counter) ==
    With(SrtTimeParts(row), LAMBDA timeParts :
    With(parseTimeToSeconds(timeParts[1]), LAMBDA startSec :
    With(SrtEndSec(timeParts, startSec), LAMBDA endSec0 :
    With(IF endSec0 <= startSec THEN startSec + 3 ELSE endSec0, LAMBDA endSec :
        SrtBlock(row, counter, startSec, endSec)))))

\* rows.forEach over rows k..Len(rs): the cues appended, with the running
\* counter
RECURSIVE SrtFrom(_, _, _)
SrtFrom(rs, k, counter) ==
    IF k > Len(rs) THEN <<>>
    ELSE IF SrtSkipped(rs[k]) THEN SrtFrom(rs, k + 1, counter)
    ELSE <<SrtCue(rs[k], counter)>> \o SrtFrom(rs, k + 1, counter + 1)

\* variant of SrtCues that numbers each cue by the position of its row
SrtCuesNumberedByRow(rs) ==
    With(SrtFrom(rs, 1, 1), LAMBDA cues :
        <<>> \o [k \in 1..Len(cues) |->
                    [cues[k] EXCEPT !.counter = cues[k].row + 1]])

\* the cues of all rows: counter starts at 1
SrtCues(rs) == SrtFrom(rs, 1, 1)

\* srtContent
handleDownloadSRT(rs) ==
    With(SrtCues(rs), LAMBDA cues :
    With(<<>> \o [k \in 1..Len(cues) |->
                     toString(cues[k].counter) \o <<NL>> \o cues[k].timing
                       \o <<NL>> \o cues[k].text \o <<NL, NL>>],
         LAMBDA blocks : Flatten(blocks)))

(***************************************************************************)
(* CSV import: handleImportCSV (reader.onload)                             *)
(***************************************************************************)
\* input.replace(/\r\n/g, '\n').replace(/\r/g, '\n').split('\n'): every
\* "\r\n", "\r" and "\n" ends a line
NormalizedLines(input) ==
    LET \* a piece that is not the last ended in "\n": a "\r" right before
        \* that "\n" belongs to the same line end
        body(piece, last) ==
            IF ~last /\ Len(piece) > 0 /\ piece[Len(piece)] = CR
            THEN SubSeq(piece, 1, Len(piece) - 1)
            ELSE piece
    IN  With(split(input, NL), LAMBDA byNL :
        With(<<>> \o [k \in 1..Len(byNL) |->
                         With(body(byNL[k], k = Len(byNL)), LAMBDA b :
                             split(b, CR))],
             LAMBDA groups : Flatten(groups)))

\* parseLine: the columns of one CSV line, the loop over the characters
\* from position i with the columns res, the current column cur and inQuote
RECURSIVE ParseLineFrom(_, _, _, _, _)
ParseLineFrom(line, i, res, cur, inQuote) ==
    IF i > Len(line) THEN Append(res, cur)
    ELSE LET c == line[i]
         IN  IF inQuote
             THEN IF c = Quote
                  THEN IF i + 1 <= Len(line) /\ line[i + 1] = Quote
                       THEN ParseLineFrom(line, i + 2, res, Append(cur, Quote), TRUE)
                       ELSE ParseLineFrom(line, i + 1, res, cur, FALSE)
                  ELSE ParseLineFrom(line, i + 1, res, Append(cur, c), TRUE)
             ELSE IF c = Quote
                  THEN ParseLineFrom(line, i + 1, res, cur, TRUE)
                  ELSE IF c = ","
                  THEN ParseLineFrom(line, i + 1, Append(res, cur), <<>>, FALSE)
                  ELSE ParseLineFrom(line, i + 1, res, Append(cur, c), FALSE)

parseLine(line) == ParseLineFrom(line, 1, <<>>, <<>>, FALSE)

\* s.replace(/^"|"$/g, '')
StripOuterQuotes(s) ==
    With(IF Len(s) > 0 /\ s[1] = Quote THEN 2 ELSE 1, LAMBDA a :
        SubSeq(s, a, IF Len(s) >= a /\ s[Len(s)] = Quote THEN Len(s) - 1
                     ELSE Len(s)))

HeaderTime == <<"t", "i", "m", "e">>

\* the header word in the local language, two characters
HeaderTimeLocal == <<"\\u6642", "\\u9593">>

IsHeaderLine(cols) ==
    \E lower \in {toLowerCase(cols[1])} :
    \E trimmed \in {trim(lower)} :
    \E c0 \in {StripOuterQuotes(trimmed)} :
        c0 = HeaderTime \/ c0 = HeaderTimeLocal \/ startsWith(c0, HeaderTime)

\* variant of ImportColumns that takes the third column alone as content
ImportColumnsThirdOnly(cols) ==
    [time    |-> IF Len(cols) >= 2 THEN cols[1] ELSE <<>>,
     speaker |-> IF Len(cols) >= 3 THEN cols[2] ELSE <<>>,
     content |-> IF Len(cols) >= 3 THEN cols[3]
                 ELSE IF Len(cols) = 2 THEN cols[2]
                 ELSE cols[1]]

\* time, speaker and content by the number of columns
ImportColumns(cols) ==
    [time    |-> IF Len(cols) >= 2 THEN cols[1] ELSE <<>>,
     speaker |-> IF Len(cols) >= 3 THEN cols[2] ELSE <<>>,
     content |-> IF Len(cols) > 3
                 THEN With(SubSeq(cols, 3, Len(cols)), LAMBDA rest :
                          join(rest, <<",">>))
                 ELSE IF Len(cols) = 3 THEN cols[3]
                 ELSE IF Len(cols) = 2 THEN cols[2]
                 ELSE cols[1]]

\* what the loop appends to importString for the columns of a data line
ImportText(columns) ==
    With(trim(columns.time), LAMBDA cleanTime :
    With(trim(columns.speaker), LAMBDA cleanSpeaker :
    With(trim(columns.content), LAMBDA cleanContent :
        IF Len(cleanTime) > 0
        THEN (IF startsWith(cleanTime, <<"[">>) THEN cleanTime
              ELSE <<"[">> \o cleanTime \o <<"]">>)
               \o <<" ">>
               \o (IF Len(cleanSpeaker) > 0 THEN cleanSpeaker \o <<":", " ">>
                   ELSE <<>>)
               \o cleanContent \o <<NL>>
        ELSE IF Len(cleanContent) > 0 THEN cleanContent \o <<NL>>
        ELSE <<>>)))

\* variant of ImportLine without the header check
ImportLineHeaderKept(rawLine, i) ==
    With(trim(rawLine), LAMBDA line :
        IF Len(line) = 0 \/ startsWith(line, Dashes) THEN <<>>
        ELSE With(parseLine(line), LAMBDA cols :
             With(ImportColumns(cols), LAMBDA columns :
                 ImportText(columns))))

\* one pass of the loop over lines: what line i (0-based) adds to
\* importString, <<>> when the line is skipped or yields nothing
ImportLine(rawLine, i) ==
    With(trim(rawLine), LAMBDA line :
        IF Len(line) = 0 \/ startsWith(line, Dashes) THEN <<>>
        ELSE With(parseLine(line), LAMBDA cols :
                 IF i < 5 /\ IsHeaderLine(cols) THEN <<>>
                 ELSE With(ImportColumns(cols), LAMBDA columns :
                          ImportText(columns))))

\* importString and validRowsCount for the text of a file
ImportCSV(rawText) ==
    With(IF Len(rawText) > 0 /\ rawText[1] = BOM THEN Tail(rawText)
         ELSE rawText,
         LAMBDA input :
    With(NormalizedLines(input), LAMBDA lines :
    With(<<>> \o [k \in 1..Len(lines) |-> ImportLine(lines[k], k - 1)],
         LAMBDA out :
        [importString   |-> Flatten(out),
         validRowsCount |-> Cardinality({k \in 1..Len(out) : Len(out[k]) > 0})])))

(***************************************************************************)
(* Row edits: updateRow                                                    *)
(***************************************************************************)
\* originalLine.match(/^(\[.*?\])/): the prefix up to the first "]" of a line
\* that starts with "[", NoMatch otherwise
TimestampPrefix(originalLine) ==
    IF Len(originalLine) > 0 /\ originalLine[1] = "["
    THEN With(IndexOfChar(originalLine, "]", 2), LAMBDA close :
             IF close > 0 /\ close < DotEnd(originalLine, 2)
             THEN SubSeq(originalLine, 1, close)
             ELSE NoMatch)
    ELSE NoMatch

\* the backward scan of the time branch of unnamed/part_002: the Start time
\* of the nearest separator row at or before position k (1-based) whose
\* content carries a Start marker, 0 if there is none
EffectiveOffset(rs, k) ==
    With({i \in 1..k : /\ rs[i].type = "separator"
                       /\ separatorMatch(rs[i].content) # NoMatch},
         LAMBDA at :
             IF at = {} THEN 0
             ELSE With(Max(at), LAMBDA i0 :
                  With(separatorMatch(rs[i0].content), LAMBDA m :
                      parseTimeToSeconds(m))))

\* formatSecondsToTime(Math.max(0, parseTimeToSeconds(time) - effectiveOffset))
RelativePart(time, effectiveOffset) ==
    With(parseTimeToSeconds(time) - effectiveOffset, LAMBDA d :
        formatSecondsToTime(IF d > 0 THEN d ELSE 0))

\* the text of the time field that unnamed/part_002 writes back: the user
\* time minus the offset, clamped at zero
RelativeTime(value, effectiveOffset) ==
    With(TimeParts(value), LAMBDA userTimeParts :
        IF Len(userTimeParts) >= 2 /\ Len(userTimeParts[2]) > 0
        THEN RelativePart(userTimeParts[1], effectiveOffset)
               \o <<" ", "-", " ">>
               \o RelativePart(userTimeParts[2], effectiveOffset)
        ELSE RelativePart(userTimeParts[1], effectiveOffset))

\* the time field that the time branch of updateRow writes into the line
StoredTime(rs, view, index, value) ==
    IF view = ViewComponents THEN value
    ELSE With(EffectiveOffset(rs, index + 1), LAMBDA effectiveOffset :
             RelativeTime(value, effectiveOffset))

\* the new line that updateRow stores in place of originalLine, line index
\* (0-based) of the text
UpdatedLine(originalLine, rs, view, index, field, value) ==
    LET row        == rs[index + 1]
        newSpeaker == IF field = "speaker" THEN value ELSE row.speaker
        newContent == IF field = "content" THEN value ELSE row.content
        spkPart    == IF Len(newSpeaker) > 0 THEN newSpeaker \o <<":", " ">>
                      ELSE <<>>
    IN  IF row.type # "segment" THEN value
        ELSE IF field \in {"content", "speaker"}
        THEN With(TimestampPrefix(originalLine), LAMBDA timeMatch :
                 (IF timeMatch # NoMatch THEN timeMatch
                  ELSE <<"[">> \o row.time \o <<"]">>)
                   \o <<" ">> \o spkPart \o newContent)
        ELSE <<"[">> \o StoredTime(rs, view, index, value) \o <<"]", " ">>
               \o spkPart \o newContent

\* the text that updateRow hands to onUpdate
updateRow(txt, rs, view, index, field, value) ==
    With(split(txt, NL), LAMBDA lines :
    With([lines EXCEPT ![index + 1] =
             UpdatedLine(lines[index + 1], rs, view, index, field, value)],
         LAMBDA newLines : join(newLines, <<NL>>)))

(***************************************************************************)
(* Row selection and bulk delete                                           *)
(***************************************************************************)
\* toggleSelect: the selection with the index added or removed
toggleSelect(selected, index) ==
    IF index \in selected THEN selected \ {index} ELSE selected \cup {index}

\* toggleSelectAll: nothing if every row is selected, every row otherwise
toggleSelectAll(selected, rs) ==
    IF Cardinality(selected) = Len(rs) THEN {} ELSE 0..(Len(rs) - 1)

\* lines.filter((_, idx) => !selectedIndices.has(idx)).join('\n')
DeletedLines(txt, selected) ==
    With(split(txt, NL), LAMBDA lines :
    With({k \in 1..Len(lines) : (k - 1) \notin selected}, LAMBDA kept :
    With(<<>> \o [j \in 1..Cardinality(kept) |-> lines[Nth(kept, j)]],
         LAMBDA newLines : join(newLines, <<NL>>))))

\* variant of handleDeleteSelected that deletes whatever the user answers
handleDeleteSelectedUnasked(txt, selected, confirmed) ==
    [text |-> DeletedLines(txt, selected), selectedIndices |-> {}]

\* handleDeleteSelected: the text handed to onUpdate and the selection, by
\* the answer to window.confirm
handleDeleteSelected(txt, selected, confirmed) ==
    IF confirmed
    THEN [text |-> DeletedLines(txt, selected), selectedIndices |-> {}]
    ELSE [text |-> txt, selectedIndices |-> selected]

(***************************************************************************)
(* Application: the settings and the props of the view                     *)
(***************************************************************************)
\* addSpeaker: a blank name is ignored, the id is numbered by the length
addSpeaker(s, newSpeakerName) ==
    IF Len(trim(newSpeakerName)) = 0 THEN s
    ELSE [s EXCEPT !.speakers =
             Append(s.speakers,
                    [id   |-> <<"S", "p", "e", "a", "k", "e", "r", " ">>
                                \o toString(Len(s.speakers) + 1),
                     name |-> trim(newSpeakerName)])]

\* removeSpeaker: filter((_, i) => i !== index), index from 0
removeSpeaker(s, index) ==
    [s EXCEPT !.speakers =
        With({k \in 1..Len(s.speakers) : k - 1 # index}, LAMBDA kept :
            <<>> \o [j \in 1..Cardinality(kept) |->
                s.speakers[Nth(kept, j)]])]

\* the label of entry idx of the speaker list: Speaker {idx + 1}
SpeakerLabel(idx) ==
    <<"S", "p", "e", "a", "k", "e", "r", " ">> \o toString(idx + 1)

\* the speakers prop of <TranscriptionView ...>: App passes text, status,
\* onClear, onUpdate, onSwitchToSummary and className, and no speakers, so the
\* view's speakers is undefined whatever the settings hold
TranscriptionViewSpeakers(s) == <<>>

\* FileSplitter's formatTimeSeconds: the start time label of a part
formatTimeSeconds(totalSeconds) ==
    With(totalSeconds \div 3600, LAMBDA hrs :
    With((totalSeconds % 3600) \div 60, LAMBDA mins :
    With(totalSeconds % 60, LAMBDA secs :
        IF hrs > 0
        THEN Padded(hrs, 2) \o <<":">> \o Padded(mins, 2) \o <<":">>
               \o Padded(secs, 2)
        ELSE Padded(mins, 2) \o <<":">> \o Padded(secs, 2))))

\* handleFileSelect: the start time becomes the estimate, "00:00" without one
handleFileSelect(s, estimatedStartTime) ==
    [s EXCEPT !.startTime = IF Len(estimatedStartTime) > 0
                            THEN estimatedStartTime
                            ELSE <<"0", "0", ":", "0", "0">>]

\* handleStartTimeChange: the field's value as typed
handleStartTimeChange(s, value) == [s EXCEPT !.startTime = value]

\* hasOffset of handleStart
hasOffset(startTime) ==
    /\ Len(startTime) > 0
    /\ startTime # <<"0", "0", ":", "0", "0">>
    /\ startTime # <<"0", ":", "0", "0">>

\* `--- [接續檔案: ${file.name} | Start: ${settings.startTime}] ---`
ContinuationLine(name, startTime) ==
    <<"-", "-", "-", " ", "[", "\\u63a5", "\\u7e8c", "\\u6a94",
      "\\u6848", ":", " ">>
      \o name \o <<" ", "|", " ", "S", "t", "a", "r", "t", ":", " ">>
      \o startTime \o <<"]", " ", "-", "-", "-">>

\* setTranscription(prev => prev + separator) of handleStart: isAppend is
\* taken from the transcription that the handler's closure holds, the
\* separator is appended to the transcription at the time of the update
StartedTranscription(prev, transcription, name, startTime) ==
    IF Len(transcription) > 0 \/ hasOffset(startTime)
    THEN prev \o <<NL, NL>> \o ContinuationLine(name, startTime) \o <<NL, NL>>
    ELSE prev

\* the transcription after handleStart's setTranscription, before any chunk,
\* when nothing has changed it since the click
handleStart(transcription, name, startTime) ==
    StartedTranscription(transcription, transcription, name, startTime)

\* file.size > MAX_FILE_SIZE_INLINE, by the name of the file
IsLargeFile(name) == Len(name) > 1

\* a call of handleStart at the click: what its closure holds (isPro, file,
\* start time, transcription), the chunks its stream is to deliver, and where it
\* stands.  delivered counts the chunks appended; stopAt and abortAt are the
\* values of delivered when stop was first pressed during the call and when
\* its signal was aborted, -1 before
NewRun(pro, name, startTime, transcription, chunks) ==
    [pc |-> "clicked", isPro |-> pro, file |-> name, startTime |-> startTime,
     transcription |-> transcription, chunks |-> chunks, aborted |-> FALSE,
     delivered |-> 0, stopAt |-> 0 - 1, abortAt |-> 0 - 1, outcome |-> "none"]

\* the runs that have begun and not ended
InProgress(rs) == {r \in 1..Len(rs) : rs[r].pc \in {"duration", "streaming"}}

\* handleStop on the runs: the controller in the ref, if any, is aborted
handleStop(rs, ref) ==
    <<>> \o [r \in 1..Len(rs) |->
        With(rs[r], LAMBDA run :
            IF run.pc = "streaming"
            THEN [run EXCEPT
                    !.stopAt  = IF @ < 0 THEN run.delivered ELSE @,
                    !.aborted = @ \/ r = ref,
                    !.abortAt = IF r = ref /\ @ < 0 THEN run.delivered ELSE @]
            ELSE run)]


\* the number of status polls after which uploadFileToGemini gives up
PollLimit == 60

\* the state of the loop after the upload, by the state of the uploaded file
WaitForProcessing(fileState) ==
    [pc       |-> IF fileState = "PROCESSING" THEN "polling" ELSE "returned",
     attempts |-> 0,
     polls    |-> 0]

\* one turn of `while (attempts < 60)`: the status request and what follows
\* it. The request is rejected (fetch throws), is answered without ok, or is
\* answered with the state of the file
PollOnce(u, outcome) ==
    With([u EXCEPT !.polls = @ + 1], LAMBDA v :
        CASE outcome = "rejected"   -> [v EXCEPT !.pc = "thrown: fetch"]
          [] outcome = "not ok"     -> v
          [] outcome = "ACTIVE"     -> [v EXCEPT !.pc = "returned"]
          [] outcome = "FAILED"     ->
                [v EXCEPT !.pc = "thrown: File processing failed on server"]
          [] OTHER                  -> [v EXCEPT !.attempts = @ + 1])

\* the most languages that can be selected
LanguageLimit == 3

\* variant of toggleLanguage without the limit of three languages
toggleLanguageUnlimited(s, langId, disabled) ==
    IF disabled THEN s
    ELSE IF \E k \in 1..Len(s.language) : s.language[k] = langId
    THEN IF Len(s.language) <= 1 THEN s
         ELSE [s EXCEPT !.language = SelectSeq(@, LAMBDA id : id # langId)]
    ELSE [s EXCEPT !.language = Append(@, langId)]

\* toggleLanguage: the last language stays, a fourth is not added
toggleLanguage(s, langId, disabled) ==
    IF disabled THEN s
    ELSE IF \E k \in 1..Len(s.language) : s.language[k] = langId
    THEN IF Len(s.language) <= 1 THEN s
         ELSE [s EXCEPT !.language = SelectSeq(@, LAMBDA id : id # langId)]
    ELSE IF Len(s.language) >= LanguageLimit THEN s
         ELSE [s EXCEPT !.language = Append(@, langId)]

\* the disabled prop of SettingsPanel
SettingsDisabled(st) == st \in {"uploading", "transcribing"}

(***************************************************************************)
(* FileSplitter: handleSplit                                               *)
(***************************************************************************)
\* parseInt of the text of the segment length field: an optional minus sign
\* and digits, NaN otherwise (the field is of type number: no other text)
parseInt(value) ==
    IF Len(value) = 0 THEN [nan |-> TRUE, v |-> 0]
    ELSE IF value[1] = "-"
    THEN IF Len(value) = 1 THEN [nan |-> TRUE, v |-> 0]
         ELSE [nan |-> FALSE, v |-> 0 - DecimalFrom(value, 2, 0)]
    ELSE [nan |-> FALSE, v |-> DecimalFrom(value, 1, 0)]

\* the least chunk size, 500 * 1024
MinChunkSize == 512000

\* the fallback bytes per minute, 1024 * 1024
BytesPerMinute == 1048576

\* a % b of JavaScript for b > 0: the sign is that of a
JsRem(a, b) == IF a >= 0 THEN a % b ELSE 0 - ((0 - a) % b)

\* n.toString() for an integer n
SignedString(n) == IF n < 0 THEN <<"-">> \o toString(0 - n) ELSE toString(n)

\* formatTimeSeconds on the seconds that handleSplit computes, which are NaN
\* or negative when splitMinutes is
PartStartTime(seconds) ==
    IF seconds.nan THEN <<"N", "a", "N", ":", "N", "a", "N">>
    ELSE IF seconds.v >= 0 THEN formatTimeSeconds(seconds.v)
    ELSE With(JsRem(seconds.v, 3600) \div 60, LAMBDA mins :
         With(JsRem(seconds.v, 60), LAMBDA secs :
             padStart(SignedString(mins), 2) \o <<":">>
               \o padStart(SignedString(secs), 2)))

\* the chunk size: by the average bytes per second when the duration is
\* known, 1 MB per minute otherwise, and 500 KB at least. NaN < 500 * 1024 is
\* false, so NaN stays
ChunkSize(size, mediaDuration, splitMinutes) ==
    IF splitMinutes.nan THEN splitMinutes
    ELSE With(IF mediaDuration > 0
              THEN (size * splitMinutes.v * 60) \div mediaDuration
              ELSE splitMinutes.v * BytesPerMinute,
              LAMBDA chunkSize :
                 [nan |-> FALSE,
                  v   |-> IF chunkSize < MinChunkSize THEN MinChunkSize
                          ELSE chunkSize])

\* while (start < totalSize) for a chunk size that is a number: the byte range
\* and the label of each part
RECURSIVE SplitFrom(_, _, _, _, _)
SplitFrom(totalSize, chunkSize, splitMinutes, start, idx) ==
    IF ~(start < totalSize) THEN <<>>
    ELSE With(Min({start + chunkSize, totalSize}), LAMBDA end :
            <<[start |-> start, end |-> end,
               startTime |-> PartStartTime([nan |-> FALSE,
                                            v |-> idx * splitMinutes * 60])]>>
              \o SplitFrom(totalSize, chunkSize, splitMinutes, end, idx + 1))

\* handleSplit: the parts of a file of the given size. With a chunk size of
\* NaN the first turn computes end = Math.min(NaN, totalSize) = NaN, slices
\* file.slice(0, NaN), which is the empty range, and leaves the loop, NaN <
\* totalSize being false
handleSplit(size, mediaDuration, splitMinutes) ==
    With(ChunkSize(size, mediaDuration, splitMinutes), LAMBDA chunkSize :
        IF chunkSize.nan
        THEN <<[start |-> 0, end |-> 0, startTime |-> PartStartTime(chunkSize)]>>
        ELSE SplitFrom(size, chunkSize.v, splitMinutes.v, 0, 0))

(***************************************************************************)
(* Inputs                                                                  *)
(***************************************************************************)
\* [0:05] **s1**: hi
LineBoldSpeaker ==
    <<"[", "0", ":", "0", "5", "]", " ", "*", "*", "s", "1", "*",
      "*", ":", " ", "h", "i">>

\* [00:07 - 00:09] yo
LineRange ==
    <<"[", "0", "0", ":", "0", "7", " ", "-", " ", "0", "0", ":",
      "0", "9", "]", " ", "y", "o">>

\* [01:00:09-00:05] A: ok
LineEndBeforeStart ==
    <<"[", "0", "1", ":", "0", "0", ":", "0", "9", "-", "0", "0",
      ":", "0", "5", "]", " ", "A", ":", " ", "o", "k">>

\* --- [f | Start: 01:30] ---
LineSeparator ==
    <<"-", "-", "-", " ", "[", "f", " ", "|", " ", "S", "t", "a",
      "r", "t", ":", " ", "0", "1", ":", "3", "0", "]", " ", "-",
      "-", "-">>

\* --- [g | Start:1:00:00] ---
LineSeparatorHour ==
    <<"-", "-", "-", " ", "[", "g", " ", "|", " ", "S", "t", "a",
      "r", "t", ":", "1", ":", "0", "0", ":", "0", "0", "]", " ",
      "-", "-", "-">>

\* a separator without a Start marker, with surrounding blanks
LineSeparatorNoStart ==
    <<" ", "-", "-", "-", " ", "[", "h", "]", " ", "-", "-", "-",
      " ">>

\* the empty line
LineBlank == <<>>

\* [00:5] Start: 02:00 (not a segment, not a separator)
LineMalformed ==
    <<"[", "0", "0", ":", "5", "]", " ", "S", "t", "a", "r", "t",
      ":", " ", "0", "2", ":", "0", "0">>

SampleLines ==
    {LineBoldSpeaker, LineRange, LineEndBeforeStart, LineSeparator,
     LineSeparatorHour, LineSeparatorNoStart, LineBlank, LineMalformed}

\* the lines of the transcripts that are edited
EditLines ==
    {LineBoldSpeaker, LineRange, LineSeparator, LineSeparatorNoStart, LineMalformed}

\* the largest number of lines of an initial transcript
MaxLines == 3

\* the largest number of row edits in a run
MaxEdits == 1

\* the largest number of CSV imports in a run
MaxImports == 1

\* the transcripts of at most n lines drawn from the set L
Texts(L, n) ==
    {join(ls, <<NL>>) : ls \in UNION {[1..k -> L] : k \in 0..n}}

SpeakerS1 == [id |-> <<"S", "1">>, name |-> <<"P", "e">>]

SpeakerS1Lower == [id |-> <<"s", "1">>, name |-> <<"B", "o">>]

\* the values of the speakers prop
SpeakerMaps == {<<>>, <<SpeakerS1, SpeakerS1Lower>>}

\* view and speakers prop: unnamed/part_002 takes no speakers prop
Props ==
    {<<ViewComponents, m>> : m \in SpeakerMaps} \cup {<<ViewPart002, <<>>>>}

\* what the user types into the fields of a row
ContentValues == {<<"o", "k">>, <<"p", NL, "q">>}

TimeValues ==
    {<<"0", "0", ":", "2", "0">>,
     <<"0", "2", ":", "0", "0", " ", "-", " ", "0", "2", ":", "0", "5">>}

SpeakerValues == {<<"B", "o">>}

FieldValues(field) ==
    IF field = "content" THEN ContentValues
    ELSE IF field = "time" THEN TimeValues
    ELSE SpeakerValues

\* the lines of the CSV files
CsvLines ==
    { \* the header
     <<"T", "i", "m", "e", ",", "S", "p", "e", "a", "k", "e", "r", ",",
       "C", "o", "n", "t", "e", "n", "t">>,
     \* a blank line
     <<" ">>,
     \* a line that starts with three dashes
     <<"-", "-", "-", " ", "x">>,
     \* three empty columns
     <<",", ",">>,
     \* three quoted columns: "0:05","A","hi"
     <<Quote, "0", ":", "0", "5", Quote, ",", Quote, "A", Quote, ",",
       Quote, "h", "i", Quote>>,
     \* four columns, bracketed time, no speaker: [0:09],,a,b
     <<"[", "0", ":", "0", "9", "]", ",", ",", "a", ",", "b">>,
     \* two columns: 0:07,yo
     <<"0", ":", "0", "7", ",", "y", "o">>,
     \* one column that starts with the header word: time up
     <<"t", "i", "m", "e", " ", "u", "p">>,
     \* one column: yo
     <<"y", "o">>}

\* the largest number of lines of a CSV file built from CsvLines
MaxCsvLines == 2

\* a file with "\r\n" line ends: the header and two data lines
CsvFileCrLf ==
    CsvHeader \o <<CR, NL, Quote, "0", ":", "0", "5", Quote, ",", "A", ",",
                  "h", "i", CR, NL,
                  "[", "0", ":", "0", "9", "]", ",", ",", "a", ",", "b">>

\* a file with the header, whose sixth line starts with the header word
CsvFileLateHeader ==
    CsvHeader \o <<NL, NL, NL, NL, NL, "t", "i", "m", "e", " ", "u", "p", NL,
      "0", ":", "0", "7", ",", "y", "o">>

\* the files that the user picks for import: the empty file among them
CsvFiles ==
    Texts(CsvLines, MaxCsvLines) \cup {CsvFileCrLf, CsvFileLateHeader}

\* the transcripts on screen when a file is imported
ImportTexts == {<<>>, LineRange}

\* lines whose values hold commas and double quotes
QuoteLines ==
    { \* a speaker with a double quote: [0:05] a"b: hi
     <<"[", "0", ":", "0", "5", "]", " ", "a", Quote, "b", ":", " ", "h",
       "i">>,
     \* commas and double quotes: [0:07] A,B: say "hi", ok
     <<"[", "0", ":", "0", "7", "]", " ", "A", ",", "B", ":", " ", "s",
       "a", "y", " ", Quote, "h", "i", Quote, ",", " ", "o", "k">>,
     \* a raw line with a comma and double quotes: x, "y"
     <<"x", ",", " ", Quote, "y", Quote>>,
     \* a separator: --- [f | Start: 01:30] ---
     <<"-", "-", "-", " ", "[", "f", " ", "|", " ", "S", "t", "a", "r",
       "t", ":", " ", "0", "1", ":", "3", "0", "]", " ", "-", "-", "-">>}

\* lines with whitespace around them
PaddedLines ==
    { \* a segment line after two spaces
     <<" ", " ", "[", "0", ":", "0", "5", "]", " ", "A", ":", " ", "h",
       "i">>,
     \* a segment line before a space
     <<"[", "0", ":", "0", "7", "]", " ", "y", "o", " ">>,
     \* a separator line after a space
     <<" ", "-", "-", "-", " ", "[", "f", " ", "|", " ", "S", "t", "a",
       "r", "t", ":", " ", "0", "1", ":", "3", "0", "]", " ", "-", "-",
       "-">>,
     \* a line of spaces
     <<" ", " ">>}

\* whole numbers of seconds to format: below and above one hour, up to and
\* beyond 100 hours
TimeSeconds ==
    {h * 3600 + m * 60 + s : h \in {0, 1, 9, 10, 99, 100},
                             m \in {0, 9, 10, 59},
                             s \in {0, 1, 9, 10, 59}}

\* the speaker lines of a transcript of the application
\* [0:05] Speaker 1: hi
LineSpeaker1 ==
    <<"[", "0", ":", "0", "5", "]", " ", "S", "p", "e", "a", "k", "e",
      "r", " ", "1", ":", " ", "h", "i">>

\* [0:07] speaker 2: yo
LineSpeaker2Lower ==
    <<"[", "0", ":", "0", "7", "]", " ", "s", "p", "e", "a", "k", "e",
      "r", " ", "2", ":", " ", "y", "o">>

\* the length at which the model stops adding speakers
MaxSpeakers == 2

\* what the user types into the new speaker field
SpeakerNames == {<<"P", "e">>, <<" ">>, <<"B", "o", " ">>}

\* the number of transcriptions that the model starts
MaxStarts == 2

\* the names of the files that the user picks
FileNames == {<<"f">>, <<"S", "t", "a", "r", "t", ":", " ", "9", ":", "5", "9">>}

\* what the user types into the start time field
StartTimeValues ==
    {<<>>, <<"0", "0", ":", "0", "0">>, <<"0", ":", "0", "0">>,
     <<"0", "1", ":", "3", "0">>}

\* the parts that FileSplitter offers: index and minutes per part
SplitParts == {<<0, 10>>, <<1, 10>>, <<2, 30>>}

\* the chunks in which transcribeMedia delivers the text of a file
Streams ==
    {<<<<"[", "0", ":", "0", "5", "]", " ", "A", ":", " ", "h", "i", NL>>,
       <<"[", "0", ":", "0", "7", " ", "-", " ", "0", ":", "0", "9", "]",
        " ", "y", "o">>>>,
     <<<<"[", "0", ":", "0">>,
       <<"5", "]", " ", "A", ":", " ", "h", "i">>>>}

\* the number of status requests that the model lets the wait make
MaxPolls == 62

\* what a status request comes to
PollOutcomes == {"rejected", "not ok", "PROCESSING", "ACTIVE", "FAILED"}

\* ids of LANGUAGES
LanguageIds == {"yue", "zh-TW", "zh-CN", "en", "ja"}

\* the sizes in bytes of the files that are split
FileSizes == {1, 512000, 512001, 1500000, 2000000}

\* the detected durations in seconds, 0 when the metadata gave none
MediaDurations == {0, 7, 120, 600}

\* the texts of the segment length field, the empty field included
SplitMinutesValues ==
    {<<"1", "0">>, <<"1">>, <<"2">>, <<"0">>, <<"-", "5">>, <<>>}

\* the part that is picked in FileSplitter while runs are followed
RunParts == {<<1, 10>>}

\* the files picked for such a run: one sent inline and one above
\* MAX_FILE_SIZE_INLINE
RunFiles == {<<"f">>, <<"f", "2">>}

\* the chunks of a run that is followed step by step
RunStreams ==
    {<<<<"[", "0", ":", "0", "5", "]", " ", "A", ":", " ", "h", "i", NL>>,
       <<"[", "0", ":", "0", "7", "]", " ", "y", "o">>>>}

(***************************************************************************)
(* State                                                                   *)
(***************************************************************************)
VARIABLES
    view,       \* which copy of the view is mounted
    speakers,   \* the speakers prop
    text,       \* the text prop: App's transcription state
    rows,       \* the rows that useMemo holds for text and speakers
    download,   \* the file written by the last export
    op,         \* the last operation with its inputs
    before,     \* the text before the last operation
    edits,      \* the number of row edits so far
    imports,    \* the number of CSV imports so far
    selectedIndices,  \* the view's set of selected row indices (0-based)
    settings,   \* App's settings: the speaker list and the start time
    file,       \* App's file: the name of the chosen file, NoFile if none
    status,     \* App's processing status
    stream,     \* the chunks that transcribeMedia has still to deliver
    starts,     \* the number of transcriptions started so far
    upload,     \* the wait of uploadFileToGemini for the uploaded file
    runs,       \* the calls of handleStart so far, each with its position
    abortControllerRef, \* abortControllerRef.current: the run whose controller it holds, 0 for null
    isPro       \* whether the licence is unlocked

\* the state of App and of the row selection, which the exports, the import
\* of an exported file and the row edits leave alone
appVars == <<selectedIndices, settings, file, status, stream, starts, upload, runs, abortControllerRef, isPro>>

vars == <<view, speakers, text, rows, download, op, before, edits, imports,
          selectedIndices, settings, file, status, stream, starts, upload, runs, abortControllerRef, isPro>>

\* no upload has been made
NoUpload == [pc |-> "none", attempts |-> 0, polls |-> 0]

NoDownload == [kind |-> "none", body |-> <<>>]

NoOp == [name |-> "none"]

NoFile == <<>>

\* the initial value of settings, as far as the transcript is concerned
DefaultSettings ==
    [language  |-> <<"yue">>,
     speakers  |-> <<>>,
     startTime |-> <<"0", "0", ":", "0", "0">>]

\* the view mounted with one of the transcripts in T as its text prop
InitWith(T) ==
    /\ \E pr \in Props : view = pr[1] /\ speakers = pr[2]
    /\ text \in T
    /\ rows = useMemoRows(text, speakers, view)
    /\ download = NoDownload
    /\ op = NoOp
    /\ before = text
    /\ edits = 0
    /\ imports = 0
    /\ selectedIndices = {}
    /\ settings = DefaultSettings
    /\ file = NoFile
    /\ status = "idle"
    /\ stream = <<>>
    /\ starts = 0
    /\ upload = NoUpload
    /\ runs = <<>>
    /\ abortControllerRef = 0
    /\ isPro = FALSE

\* the view mounted with a transcript of at most MaxLines lines drawn from L
InitView(L) == InitWith(Texts(L, MaxLines))

(***************************************************************************)
(* Actions                                                                 *)
(***************************************************************************)
\* handleDownloadTxt, handleCopy: the processed text leaves the view
DownloadTxt ==
    /\ download' = [kind |-> "txt", body |-> getProcessedText(rows)]
    /\ op' = [name |-> "handleDownloadTxt"]
    /\ before' = text
    /\ UNCHANGED <<view, speakers, text, rows, edits, imports>>
    /\ UNCHANGED appVars

DownloadCSV ==
    /\ download' = [kind |-> "csv", body |-> handleDownloadCSV(rows)]
    /\ op' = [name |-> "handleDownloadCSV"]
    /\ before' = text
    /\ UNCHANGED <<view, speakers, text, rows, edits, imports>>
    /\ UNCHANGED appVars

DownloadSRT ==
    /\ download' = [kind |-> "srt", body |-> handleDownloadSRT(rows)]
    /\ op' = [name |-> "handleDownloadSRT"]
    /\ before' = text
    /\ UNCHANGED <<view, speakers, text, rows, edits, imports>>
    /\ UNCHANGED appVars

\* handleImportCSV with the file that the last CSV export wrote; confirmed is
\* the answer to window.confirm
ImportCSVFile ==
    /\ imports < MaxImports
    /\ download.kind = "csv"
    /\ Len(download.body) > 0
    /\ \E confirmed \in BOOLEAN :
          \E res \in {ImportCSV(download.body)} :
              /\ text' = IF res.validRowsCount > 0 /\ confirmed
                         THEN res.importString ELSE text
              /\ rows' = useMemoRows(text', speakers, view)
              /\ op' = [name |-> "handleImportCSV", file |-> download.body,
                        validRowsCount |-> res.validRowsCount,
                        confirmed |-> res.validRowsCount > 0 /\ confirmed,
                        alerted |-> res.validRowsCount = 0]
    /\ before' = text
    /\ imports' = imports + 1
    /\ UNCHANGED <<view, speakers, download, edits>>
    /\ UNCHANGED appVars

\* the rows that renderTable gives input fields: not separators, not blank
\* raw rows; time and speaker fields on segment rows only
Editable(row, field) ==
    /\ row.type # "separator"
    /\ ~(row.type = "raw" /\ Len(trim(row.content)) = 0)
    /\ field \in {"time", "speaker"} => row.type = "segment"

\* the fields of a row are disabled while status is transcribing
UpdateRow ==
    /\ status # "transcribing"
    /\ edits < MaxEdits
    /\ \E k \in 1..Len(rows), field \in {"time", "speaker", "content"} :
          /\ Editable(rows[k], field)
          /\ \E value \in FieldValues(field) :
                /\ text' = updateRow(text, rows, view, k - 1, field, value)
                /\ rows' = useMemoRows(text', speakers, view)
                /\ op' = [name |-> "updateRow", index |-> k - 1,
                          field |-> field, value |-> value]
    /\ before' = text
    /\ edits' = edits + 1
    /\ UNCHANGED <<view, speakers, download, imports>>
    /\ UNCHANGED appVars

\* reader.onload of handleImportCSV for the text rawText of the chosen file;
\* confirmed is the answer to window.confirm.  An empty result returns at
\* once: nothing is parsed, no dialog is shown.
ReaderOnload(rawText, confirmed) ==
    IF Len(rawText) = 0
    THEN /\ UNCHANGED <<text, rows>>
         /\ op' = [name |-> "handleImportCSV", file |-> rawText,
                   validRowsCount |-> 0, confirmed |-> FALSE,
                   alerted |-> FALSE]
    ELSE \E res \in {ImportCSV(rawText)} :
             /\ text' = IF res.validRowsCount > 0 /\ confirmed
                        THEN res.importString ELSE text
             /\ rows' = useMemoRows(text', speakers, view)
             /\ op' = [name |-> "handleImportCSV", file |-> rawText,
                       validRowsCount |-> res.validRowsCount,
                       confirmed |-> res.validRowsCount > 0 /\ confirmed,
                       alerted |-> res.validRowsCount = 0]

\* handleImportCSV with a file that the user picks, once in a run
ImportFile ==
    /\ imports = 0
    /\ \E rawText \in CsvFiles, confirmed \in BOOLEAN :
          ReaderOnload(rawText, confirmed)
    /\ before' = text
    /\ imports' = imports + 1
    /\ UNCHANGED <<view, speakers, download, edits>>
    /\ UNCHANGED appVars

\* the checkbox of a row: rendered for the rows that are neither separators
\* nor blank, while nothing is being transcribed
ToggleSelect ==
    /\ status # "transcribing"
    /\ \E k \in 1..Len(rows) :
          /\ rows[k].type # "separator"
          /\ ~(rows[k].type = "raw" /\ Len(trim(rows[k].content)) = 0)
          /\ selectedIndices' = toggleSelect(selectedIndices, k - 1)
          /\ op' = [name |-> "toggleSelect", index |-> k - 1]
    /\ before' = text
    /\ UNCHANGED <<view, speakers, text, rows, download, edits, imports>>
    /\ UNCHANGED <<settings, file, status, stream, starts, upload, runs, abortControllerRef, isPro>>

\* the checkbox of the header, rendered while nothing is being transcribed
ToggleSelectAll ==
    /\ status # "transcribing"
    /\ selectedIndices' = toggleSelectAll(selectedIndices, rows)
    /\ op' = [name |-> "toggleSelectAll"]
    /\ before' = text
    /\ UNCHANGED <<view, speakers, text, rows, download, edits, imports>>
    /\ UNCHANGED <<settings, file, status, stream, starts, upload, runs, abortControllerRef, isPro>>

\* the delete button, shown while rows are selected; confirmed is the answer
\* to window.confirm
DeleteSelected ==
    /\ selectedIndices # {}
    /\ \E confirmed \in BOOLEAN :
       \E res \in {handleDeleteSelected(text, selectedIndices, confirmed)} :
          /\ text' = res.text
          /\ selectedIndices' = res.selectedIndices
          /\ rows' = useMemoRows(text', speakers, view)
          /\ op' = [name |-> "handleDeleteSelected", confirmed |-> confirmed]
    /\ before' = text
    /\ UNCHANGED <<view, speakers, download, edits, imports>>
    /\ UNCHANGED <<settings, file, status, stream, starts, upload, runs, abortControllerRef, isPro>>

\* onClear: App's handleClearTranscription
ClearTranscription ==
    /\ \E confirmed \in BOOLEAN :
          /\ text' = IF confirmed THEN <<>> ELSE text
          /\ rows' = useMemoRows(text', speakers, view)
          /\ op' = [name |-> "handleClearTranscription",
                    confirmed |-> confirmed]
    /\ before' = text
    /\ UNCHANGED <<view, speakers, download, edits, imports>>
    /\ UNCHANGED appVars

\* formatSecondsToTime of a number of seconds
FormatTime ==
    /\ \E totalSeconds \in TimeSeconds :
          op' = [name |-> "formatSecondsToTime",
                 totalSeconds |-> totalSeconds,
                 timeStr |-> formatSecondsToTime(totalSeconds)]
    /\ before' = text
    /\ UNCHANGED <<view, speakers, text, rows, download, edits, imports>>
    /\ UNCHANGED appVars

\* parseTimeToSeconds of the string that was formatted last
ParseTime ==
    /\ op.name = "formatSecondsToTime"
    /\ op' = [name |-> "parseTimeToSeconds",
              timeStr |-> op.timeStr,
              formatted |-> op.totalSeconds,
              totalSeconds |-> parseTimeToSeconds(op.timeStr)]
    /\ before' = text
    /\ UNCHANGED <<view, speakers, text, rows, download, edits, imports>>
    /\ UNCHANGED appVars

\* the add button of the speaker list
AddSpeaker ==
    /\ Len(settings.speakers) < MaxSpeakers
    /\ \E newSpeakerName \in SpeakerNames :
          /\ settings' = addSpeaker(settings, newSpeakerName)
          /\ op' = [name |-> "addSpeaker", newSpeakerName |-> newSpeakerName]
    /\ speakers' = TranscriptionViewSpeakers(settings')
    /\ rows' = useMemoRows(text, speakers', view)
    /\ before' = text
    /\ UNCHANGED <<view, text, download, edits, imports>>
    /\ UNCHANGED <<selectedIndices, file, status, stream, starts, upload, runs, abortControllerRef, isPro>>

\* the remove button of an entry of the speaker list
RemoveSpeaker ==
    /\ \E index \in 0..(Len(settings.speakers) - 1) :
          /\ settings' = removeSpeaker(settings, index)
          /\ op' = [name |-> "removeSpeaker", index |-> index]
    /\ speakers' = TranscriptionViewSpeakers(settings')
    /\ rows' = useMemoRows(text, speakers', view)
    /\ before' = text
    /\ UNCHANGED <<view, text, download, edits, imports>>
    /\ UNCHANGED <<selectedIndices, file, status, stream, starts, upload, runs, abortControllerRef, isPro>>

\* the file input and the part buttons of FileSplitter: onSelectSegment hands
\* the part's start time label to handleFileSelect
SelectFile ==
    /\ status # "transcribing"
    /\ \E name \in FileNames :
       \E estimatedStartTime \in
             {<<>>} \cup {formatTimeSeconds(pt[1] * pt[2] * 60) : pt \in SplitParts} :
          /\ file' = name
          /\ settings' = handleFileSelect(settings, estimatedStartTime)
          /\ op' = [name |-> "handleFileSelect", file |-> name,
                    estimatedStartTime |-> estimatedStartTime]
    /\ status' = "idle"
    /\ before' = text
    /\ UNCHANGED <<view, speakers, text, rows, download, edits, imports>>
    /\ UNCHANGED <<selectedIndices, stream, starts, upload, runs, abortControllerRef, isPro>>

\* the start time field of the settings panel, disabled while transcribing
ChangeStartTime ==
    /\ status # "transcribing"
    /\ \E value \in StartTimeValues :
          /\ settings' = handleStartTimeChange(settings, value)
          /\ op' = [name |-> "handleStartTimeChange", value |-> value]
    /\ before' = text
    /\ UNCHANGED <<view, speakers, text, rows, download, edits, imports>>
    /\ UNCHANGED <<selectedIndices, file, status, stream, starts, upload, runs, abortControllerRef, isPro>>

\* handleStart up to the call of transcribeMedia, whose chunks are to come
Start ==
    /\ file # NoFile
    /\ status # "transcribing"
    /\ starts < MaxStarts
    /\ text' = handleStart(text, file, settings.startTime)
    /\ rows' = useMemoRows(text', speakers, view)
    /\ status' = "transcribing"
    /\ stream' \in Streams
    /\ starts' = starts + 1
    /\ op' = [name |-> "handleStart", file |-> file,
              startTime |-> settings.startTime]
    /\ before' = text
    /\ UNCHANGED <<view, speakers, download, edits, imports>>
    /\ UNCHANGED <<selectedIndices, settings, file, upload, runs, abortControllerRef, isPro>>

\* the onProgress callback of handleStart: the next chunk is appended
Progress ==
    /\ status = "transcribing"
    /\ stream # <<>>
    /\ text' = text \o Head(stream)
    /\ rows' = useMemoRows(text', speakers, view)
    /\ stream' = Tail(stream)
    /\ UNCHANGED <<view, speakers, download, op, before, edits, imports>>
    /\ UNCHANGED <<selectedIndices, settings, file, status, starts, upload, runs, abortControllerRef, isPro>>

\* transcribeMedia resolves after the last chunk
Completed ==
    /\ status = "transcribing"
    /\ stream = <<>>
    /\ status' = "completed"
    /\ UNCHANGED <<view, speakers, text, rows, download, op, before, edits,
                   imports>>
    /\ UNCHANGED <<selectedIndices, settings, file, stream, starts, upload, runs, abortControllerRef, isPro>>

\* uploadFileToGemini after the bytes are uploaded
UploadFile ==
    /\ upload.pc = "none"
    /\ \E fileState \in {"PROCESSING", "ACTIVE"} :
          upload' = WaitForProcessing(fileState)
    /\ UNCHANGED <<view, speakers, text, rows, download, op, before, edits,
                   imports>>
    /\ UNCHANGED <<selectedIndices, settings, file, status, stream, starts,
                   runs, abortControllerRef, isPro>>

\* one turn of the polling loop
Poll ==
    /\ upload.pc = "polling"
    /\ upload.attempts < PollLimit
    /\ upload.polls < MaxPolls
    /\ \E outcome \in PollOutcomes : upload' = PollOnce(upload, outcome)
    /\ UNCHANGED <<view, speakers, text, rows, download, op, before, edits,
                   imports>>
    /\ UNCHANGED <<selectedIndices, settings, file, status, stream, starts,
                   runs, abortControllerRef, isPro>>

\* the loop ends with attempts at the limit
PollTimedOut ==
    /\ upload.pc = "polling"
    /\ upload.attempts >= PollLimit
    /\ upload' = [upload EXCEPT !.pc = "thrown: File processing timed out"]
    /\ UNCHANGED <<view, speakers, text, rows, download, op, before, edits,
                   imports>>
    /\ UNCHANGED <<selectedIndices, settings, file, status, stream, starts,
                   runs, abortControllerRef, isPro>>

\* a click on an entry of the language menu
ToggleLanguage ==
    /\ \E langId \in LanguageIds :
          /\ settings' = toggleLanguage(settings, langId, SettingsDisabled(status))
          /\ op' = [name |-> "toggleLanguage", langId |-> langId]
    /\ before' = text
    /\ UNCHANGED <<view, speakers, text, rows, download, edits, imports>>
    /\ UNCHANGED <<selectedIndices, file, status, stream, starts, upload, runs, abortControllerRef, isPro>>

\* the split button, on a file and a segment length field as the user left them
Split ==
    /\ \E size \in FileSizes, mediaDuration \in MediaDurations,
          value \in SplitMinutesValues :
          op' = [name          |-> "handleSplit",
                 size          |-> size,
                 mediaDuration |-> mediaDuration,
                 splitMinutes  |-> parseInt(value),
                 chunks        |-> handleSplit(size, mediaDuration,
                                               parseInt(value))]
    /\ before' = text
    /\ UNCHANGED <<view, speakers, text, rows, download, edits, imports>>
    /\ UNCHANGED appVars

\* the part of handleStart from setStatus('uploading' or 'transcribing') to the
\* call of transcribeMedia, for run r
BeginRun(r, rs) ==
    /\ status' = IF IsLargeFile(rs[r].file) THEN "uploading" ELSE "transcribing"
    /\ abortControllerRef' = r
    /\ text' = StartedTranscription(text, rs[r].transcription, rs[r].file,
                                    rs[r].startTime)
    /\ rows' = useMemoRows(text', speakers, view)
    /\ runs' = [rs EXCEPT ![r].pc = "streaming"]

\* the start button, shown while status is neither uploading nor
\* transcribing: a Pro user's run begins at once, another user's run first
\* sets status to idle and awaits the duration of the file
ClickStart ==
    /\ status \notin {"uploading", "transcribing"}
    /\ file # NoFile
    /\ starts < MaxStarts
    /\ starts' = starts + 1
    /\ \E chunks \in RunStreams :
       \E rs \in {Append(runs, NewRun(isPro, file, settings.startTime, text,
                                      chunks))} :
          IF isPro
          THEN BeginRun(Len(rs), rs)
          ELSE /\ status' = "idle"
               /\ runs' = [rs EXCEPT ![Len(rs)].pc = "duration"]
               /\ UNCHANGED <<text, rows, abortControllerRef>>
    /\ UNCHANGED <<view, speakers, download, op, before, edits, imports>>
    /\ UNCHANGED <<selectedIndices, settings, file, stream, upload, isPro>>

\* getMediaDuration resolves: above seven minutes the run ends with the limit
\* error, otherwise it begins
DurationKnown ==
    /\ \E r \in 1..Len(runs) :
          /\ runs[r].pc = "duration"
          /\ \E overLimit \in BOOLEAN :
                IF overLimit
                THEN /\ runs' = [runs EXCEPT ![r].pc = "done",
                                             ![r].outcome = "limit"]
                     /\ UNCHANGED <<text, rows, status, abortControllerRef>>
                ELSE BeginRun(r, runs)
    /\ UNCHANGED <<view, speakers, download, op, before, edits, imports>>
    /\ UNCHANGED <<selectedIndices, settings, file, stream, starts, upload,
                   isPro>>

\* the end of handleStart for run r: the status of the outcome is set and the
\* finally block clears the ref
EndRun(r, outcome) ==
    /\ runs' = [runs EXCEPT ![r].pc = "done", ![r].outcome = outcome]
    /\ status' = outcome
    /\ abortControllerRef' = 0
    /\ UNCHANGED <<text, rows>>

\* the stream of run r delivers a chunk: with the signal aborted the loop
\* throws, the catch of transcribeMedia returns because the signal is aborted,
\* and handleStart goes on to setStatus('completed'); otherwise onProgress
\* appends the chunk
StreamChunk ==
    /\ \E r \in 1..Len(runs) :
          /\ runs[r].pc = "streaming"
          /\ runs[r].chunks # <<>>
          /\ IF runs[r].aborted
             THEN EndRun(r, "completed")
             ELSE /\ status' = "transcribing"
                  /\ text' = text \o Head(runs[r].chunks)
                  /\ rows' = useMemoRows(text', speakers, view)
                  /\ runs' = [runs EXCEPT ![r].chunks = Tail(@),
                                          ![r].delivered = @ + 1]
                  /\ UNCHANGED abortControllerRef
    /\ UNCHANGED <<view, speakers, download, op, before, edits, imports>>
    /\ UNCHANGED <<selectedIndices, settings, file, stream, starts, upload,
                   isPro>>

\* the stream of run r ends: transcribeMedia resolves
StreamEnd ==
    /\ \E r \in 1..Len(runs) :
          /\ runs[r].pc = "streaming"
          /\ runs[r].chunks = <<>>
          /\ EndRun(r, "completed")
    /\ UNCHANGED <<view, speakers, download, op, before, edits, imports>>
    /\ UNCHANGED <<selectedIndices, settings, file, stream, starts, upload,
                   isPro>>

\* the upload or the stream of run r fails: transcribeMedia rethrows, unless
\* the signal is aborted, in which case its catch returns
StreamError ==
    /\ \E r \in 1..Len(runs) :
          /\ runs[r].pc = "streaming"
          /\ EndRun(r, IF runs[r].aborted THEN "completed" ELSE "error")
    /\ UNCHANGED <<view, speakers, download, op, before, edits, imports>>
    /\ UNCHANGED <<selectedIndices, settings, file, stream, starts, upload,
                   isPro>>

\* the stop button, shown while status is uploading or transcribing
Stop ==
    /\ status \in {"uploading", "transcribing"}
    /\ runs' = handleStop(runs, abortControllerRef)
    /\ UNCHANGED <<view, speakers, text, rows, download, op, before, edits,
                   imports>>
    /\ UNCHANGED <<selectedIndices, settings, file, status, stream, starts,
                   upload, abortControllerRef, isPro>>

\* the file input of the uploader, disabled while uploading or transcribing:
\* onFileSelect is handleFileSelect without an estimate
PickFile ==
    /\ status \notin {"uploading", "transcribing"}
    /\ file' \in RunFiles
    /\ settings' = handleFileSelect(settings, <<>>)
    /\ status' = "idle"
    /\ UNCHANGED <<view, speakers, text, rows, download, op, before, edits,
                   imports>>
    /\ UNCHANGED <<selectedIndices, stream, starts, upload, runs,
                   abortControllerRef, isPro>>

\* a part button of FileSplitter, which splits for Pro users only and which
\* no status disables: onSelectSegment is handleFileSelect
SelectSegment ==
    /\ isPro
    /\ \E pt \in RunParts :
       \E label \in {formatTimeSeconds(pt[1] * pt[2] * 60)} :
          /\ file' = <<"f">>
          /\ settings' = handleFileSelect(settings, label)
    /\ status' = "idle"
    /\ UNCHANGED <<view, speakers, text, rows, download, op, before, edits,
                   imports>>
    /\ UNCHANGED <<selectedIndices, stream, starts, upload, runs,
                   abortControllerRef, isPro>>

\* the licence is unlocked
Unlock ==
    /\ ~isPro
    /\ isPro' = TRUE
    /\ UNCHANGED <<view, speakers, text, rows, download, op, before, edits,
                   imports>>
    /\ UNCHANGED <<selectedIndices, settings, file, status, stream, starts,
                   upload, runs, abortControllerRef>>

(***************************************************************************)
(* Specifications                                                          *)
(***************************************************************************)
\* the parser on every sample transcript, and the plain-text export
InitParse == InitView(SampleLines)

NextParse == DownloadTxt

SpecParse == InitParse /\ [][NextParse]_vars

\* the SRT export of every sample transcript
InitSrt == InitView(SampleLines)

NextSrt == DownloadSRT

SpecSrt == InitSrt /\ [][NextSrt]_vars

\* the CSV round trip: export, then import of the exported file
InitImport == InitView(EditLines)

NextImport == DownloadCSV \/ ImportCSVFile

SpecImport == InitImport /\ [][NextImport]_vars

\* the row edits
Init == InitView(EditLines)

Next == UpdateRow

Spec == Init /\ [][Next]_vars

\* the import of a file that the user picks
InitFile == InitWith(ImportTexts)

NextFile == ImportFile

SpecFile == InitFile /\ [][NextFile]_vars

\* the operations that ask for a confirmation: bulk delete, clear, import
InitConfirm ==
    /\ InitWith({LineRange \o <<NL>> \o LineSeparator \o <<NL>> \o LineMalformed})
    /\ view = ViewComponents

NextConfirm ==
    \/ ToggleSelect
    \/ ToggleSelectAll
    \/ DeleteSelected
    \/ ClearTranscription
    \/ DownloadCSV
    \/ ImportCSVFile

SpecConfirm == InitConfirm /\ [][NextConfirm]_vars

\* the CSV export of transcripts with commas and double quotes
InitCsv == InitView(QuoteLines)

SpecCsv == InitCsv /\ [][DownloadCSV]_vars

\* the parser on lines with whitespace around them
InitPadded == InitView(PaddedLines)

SpecPadded == InitPadded /\ [][DownloadTxt]_vars

\* the time helpers: format a number of seconds, parse the result
InitTime == InitWith({<<>>}) /\ view = ViewComponents

NextTime == FormatTime \/ ParseTime

SpecTime == InitTime /\ [][NextTime]_vars

\* the application: the speaker list of the settings, the view and its exports
InitSpeakers ==
    /\ InitWith(Texts({LineSpeaker1, LineSpeaker2Lower, LineRange}, MaxLines))
    /\ view = ViewComponents
    /\ speakers = TranscriptionViewSpeakers(settings)

NextSpeakers == AddSpeaker \/ RemoveSpeaker \/ DownloadTxt

SpecSpeakers == InitSpeakers /\ [][NextSpeakers]_vars

\* the application: files are picked and transcribed one after the other
InitStart == InitWith({<<>>}) /\ view = ViewComponents /\ speakers = <<>>

NextStart == SelectFile \/ ChangeStartTime \/ Start \/ Progress \/ Completed

SpecStart == InitStart /\ [][NextStart]_vars

\* the wait for an uploaded file
InitUpload == InitWith({<<>>}) /\ view = ViewComponents /\ speakers = <<>>

NextUpload == UploadFile \/ Poll \/ PollTimedOut

SpecUpload == InitUpload /\ [][NextUpload]_vars

\* the language menu of the settings panel
InitLanguage == InitWith({<<>>}) /\ view = ViewComponents /\ speakers = <<>>

SpecLanguage == InitLanguage /\ [][ToggleLanguage]_vars

\* the file splitter
InitSplit == InitWith({<<>>}) /\ view = ViewComponents /\ speakers = <<>>

SpecSplit == InitSplit /\ [][Split]_vars

\* the runs of the application: start, stream, stop
InitRun == InitWith({<<>>}) /\ view = ViewComponents /\ speakers = <<>>

NextRun ==
    \/ PickFile
    \/ SelectSegment
    \/ Unlock
    \/ ClickStart
    \/ DurationKnown
    \/ StreamChunk
    \/ StreamEnd
    \/ StreamError
    \/ Stop

SpecRun == InitRun /\ [][NextRun]_vars

\* the selection and the bulk delete on transcripts of two files: a segment,
\* the separator of the second file, a segment of the second file
InitDelete ==
    /\ InitWith({LineBoldSpeaker \o <<NL>> \o LineSeparator \o <<NL>> \o LineRange,
                 LineRange \o <<NL>> \o LineSeparatorHour \o <<NL>> \o LineBoldSpeaker
                    \o <<NL>> \o LineMalformed})
    /\ view = ViewComponents
    /\ speakers = <<>>

NextDelete ==
    \/ ToggleSelect
    \/ ToggleSelectAll
    \/ DeleteSelected

SpecDelete == InitDelete /\ [][NextDelete]_vars

\* a run is in progress, by the status
RunStatus == status \in {"uploading", "transcribing"}

\* every run that streams has one chunk left to deliver
LastChunkNext ==
    \A r \in 1..Len(runs) :
        runs[r].pc = "streaming" => Len(runs[r].chunks) = 1

\* the view while the application runs: selection, bulk delete, clear, row
\* edits and CSV import next to the start and the stream of a run
\* of one run, with a selection made before it and, during it, one row edit or
\* one import before the last chunk
InitRunView == InitWith({LineRange}) /\ view = ViewComponents /\ speakers = <<>>

NextRunView ==
    \/ PickFile
    \/ (runs = <<>> /\ ClickStart)
    \/ DurationKnown
    \/ StreamChunk
    \/ StreamEnd
    \/ (runs = <<>> /\ ToggleSelect)
    \/ DeleteSelected
    \/ (RunStatus /\ ClearTranscription)
    \/ (RunStatus /\ imports = 0 /\ UpdateRow)
    \/ (RunStatus /\ edits = 0 /\ LastChunkNext /\ ImportFile)

SpecRunView == InitRunView /\ [][NextRunView]_vars

(***************************************************************************)
(* Vocabulary of the properties, stated on the raw lines                   *)
(***************************************************************************)
IsSeparatorLine(line) == startsWith(trim(line), SeparatorPrefix)

IsBlankLine(line) == \A k \in 1..Len(line) : IsSpace(line[k])

HasStartMarker(line) == separatorMatch(trim(line)) # NoMatch

\* the Start time that a separator line declares, in seconds
DeclaredStart(line) == parseTimeToSeconds(separatorMatch(trim(line)))

\* the positions of the separator lines that carry a Start marker
MarkedLines(lines) ==
    {j \in 1..Len(lines) : IsSeparatorLine(lines[j]) /\ HasStartMarker(lines[j])}

\* the offset in effect at line k, given the set marked of marked separator
\* lines: the Start time of the most recent of them before line k, 0 if none
OffsetInEffect(lines, marked, k) ==
    LET earlier == {j \in marked : j < k}
    IN  IF earlier = {} THEN 0
        ELSE DeclaredStart(lines[CHOOSE j \in earlier : \A i \in earlier : i <= j])

\* the start and the end of a displayed time "start" or "start - end"
DisplayedStart(time) ==
    IF IndexOfChar(time, " ", 1) = 0 THEN time
    ELSE SubSeq(time, 1, IndexOfChar(time, " ", 1) - 1)

DisplayedEnd(time) ==
    IF IndexOfChar(time, " ", 1) = 0 THEN <<>>
    ELSE From(time, IndexOfChar(time, " ", 1) + 3)

\* kind, displayed time, speaker and content of a row
RowView(row) ==
    [type |-> row.type, time |-> row.time, speaker |-> row.speaker,
     content |-> row.content]

RowViews(rs) == [k \in 1..Len(rs) |-> RowView(rs[k])]

\* the positions of the segment rows, in row order
SegmentPositions(rs) == {k \in 1..Len(rs) : rs[k].type = "segment"}

(***************************************************************************)
(* C1  Parsing the plain-text serialization of the parsed rows yields the  *)
(* same row sequence (kind, displayed time, speaker, content at every      *)
(* index) as parsing the original text.                                    *)
(***************************************************************************)
C1_TextRoundTrip ==
    RowViews(useMemoRows(getProcessedText(rows), speakers, view)) = RowViews(rows)

(***************************************************************************)
(* C2  The displayed start (and end) time of every segment row is the time *)
(* stated in its raw line plus the offset in effect at that line, and the  *)
(* canonical line of the row carries these corrected times.                *)
(***************************************************************************)
C2_CorrectedTimes ==
    LET lines  == split(text, NL)
        marked == MarkedLines(lines)
    IN  \A k \in 1..Len(rows) :
            rows[k].type = "segment" =>
                LET m   == SegmentMatch(lines[k], view)
                    off == OffsetInEffect(lines, marked, k)
                IN  /\ parseTimeToSeconds(DisplayedStart(rows[k].time))
                          = parseTimeToSeconds(m.rawStartTime) + off
                    /\ (m.rawEndTime = NoMatch) = (DisplayedEnd(rows[k].time) = <<>>)
                    /\ m.rawEndTime # NoMatch =>
                          parseTimeToSeconds(DisplayedEnd(rows[k].time))
                              = parseTimeToSeconds(m.rawEndTime) + off
                    /\ startsWith(rows[k].rawLine,
                                  <<"[">> \o rows[k].time \o <<"]", " ">>)

C2_Witness ==
    LET lines  == split(text, NL)
        marked == MarkedLines(lines)
    IN  /\ download.kind = "txt"
        /\ \E k \in 1..Len(rows) :
              /\ rows[k].type = "segment"
              /\ OffsetInEffect(lines, marked, k) > 0
              /\ DisplayedEnd(rows[k].time) # <<>>
              /\ \E j \in marked :
                    j < k /\ DeclaredStart(lines[j]) # OffsetInEffect(lines, marked, k)

(***************************************************************************)
(* C3  Within one parse the offset starts at 0 and after each line equals  *)
(* the Start time of the last separator line seen so far that carries a    *)
(* Start marker: a later separator replaces the offset, and a separator    *)
(* without a Start marker and every other line leave it unchanged.         *)
(***************************************************************************)
C3_OffsetReplaced ==
    LET lines   == split(text, NL)
        marked  == MarkedLines(lines)
        offsets == currentOffsetSeconds(lines)
    IN  /\ offsets[1] = 0
        /\ \A k \in 1..Len(lines) :
              /\ offsets[k + 1] = OffsetInEffect(lines, marked, k + 1)
              /\ k \notin marked => offsets[k + 1] = offsets[k]
              /\ k \in marked => offsets[k + 1] = DeclaredStart(lines[k])

C3_Witness ==
    LET lines   == split(text, NL)
        marked  == MarkedLines(lines)
        offsets == currentOffsetSeconds(lines)
    IN  /\ Len(lines) = 3
        /\ 1 \in marked /\ 2 \in marked /\ 3 \notin marked
        /\ DeclaredStart(lines[1]) > DeclaredStart(lines[2])
        /\ DeclaredStart(lines[2]) > 0
        /\ offsets[4] = DeclaredStart(lines[2])
        /\ IsSeparatorLine(lines[3])

(***************************************************************************)
(* C4  The parser yields exactly one row per line, in line order, the row  *)
(* at position i having id i and describing line i; a blank line becomes a *)
(* raw row with empty content, and a non-blank line that is neither a      *)
(* separator nor a segment becomes a raw row whose content and canonical   *)
(* line are the line verbatim.                                             *)
(***************************************************************************)
C4_OneRowPerLine ==
    LET lines == split(text, NL)
        rs    == rows
    IN  /\ Len(rs) = Len(lines)
        /\ \A k \in 1..Len(lines) :
              LET line == lines[k]
                  row  == rs[k]
              IN  /\ row.id = k - 1
                  /\ IsSeparatorLine(line) =>
                        row.type = "separator" /\ row.rawLine = line
                  /\ IsBlankLine(line) =>
                        /\ row.type = "raw" /\ row.content = <<>>
                        /\ row.rawLine = line
                  /\ (~IsSeparatorLine(line) /\ ~IsBlankLine(line)
                        /\ SegmentMatch(line, view).ok) =>
                        row.type = "segment"
                  /\ (~IsSeparatorLine(line) /\ ~IsBlankLine(line)
                        /\ ~SegmentMatch(line, view).ok) =>
                        /\ row.type = "raw"
                        /\ row.content = line /\ row.rawLine = line

C4_Witness ==
    LET lines == split(text, NL)
        rs    == rows
    IN  /\ Len(lines) = 3
        /\ IsBlankLine(lines[1])
        /\ rs[2].type = "raw" /\ rs[2].content = lines[2] /\ Len(lines[2]) > 0
        /\ rs[3].type = "segment" /\ rs[3].id = 2

(***************************************************************************)
(* C5  After the CSV export of the parsed rows has been imported, the      *)
(* segment rows of the reparsed text have, in the same order, the same     *)
(* start seconds, speaker and content as the segment rows exported.        *)
(***************************************************************************)
IsSegmentRow(row) == row.type = "segment"

\* start seconds, speaker and content of the segment rows, in row order
SegmentData(rs) ==
    LET seg == SelectSeq(rs, IsSegmentRow)
    IN  [k \in 1..Len(seg) |->
            [startSeconds |-> parseTimeToSeconds(DisplayedStart(seg[k].time)),
             speaker |-> seg[k].speaker, content |-> seg[k].content]]

C5_CsvRoundTrip ==
    (/\ op.name = "handleImportCSV"
     /\ op.confirmed
     /\ op.file = handleDownloadCSV(useMemoRows(before, speakers, view)))
        => SegmentData(rows) = SegmentData(useMemoRows(before, speakers, view))

(***************************************************************************)
(* Vocabulary of the edit properties: the state before the last edit       *)
(***************************************************************************)
\* the rows displayed before the last operation
RowsBefore == useMemoRows(before, speakers, view)

\* the part of a segment line in front of its content: the bracketed time
\* prefix and the speaker prefix, as written in the raw text
RawPrefix(line) ==
    SubSeq(line, 1, Len(line) - Len(SegmentMatch(line, view).content))

\* the last operation edited the given field of a segment row
EditedSegment(field) ==
    /\ op.name = "updateRow"
    /\ op.field = field
    /\ RowsBefore[op.index + 1].type = "segment"

(***************************************************************************)
(* C6  After an edit of the content field of the segment row at index i,   *)
(* only raw line i has changed, the bracketed time prefix and the speaker  *)
(* prefix of raw line i are exactly as they were in the raw text, and      *)
(* every other row has the same kind, displayed time, speaker and content  *)
(* as before the edit.                                                     *)
(***************************************************************************)
C6_ContentEditFrame ==
    EditedSegment("content") =>
        LET old == split(before, NL)
            new == split(text, NL)
            i   == op.index + 1
        IN  /\ Len(new) = Len(old)
            /\ \A j \in 1..Len(old) : j # i => new[j] = old[j]
            /\ TimestampPrefix(new[i]) = TimestampPrefix(old[i])
            /\ RawPrefix(new[i]) = RawPrefix(old[i])
            /\ Len(rows) = Len(RowsBefore)
            /\ \A j \in 1..Len(RowsBefore) :
                  j # i => RowView(rows[j]) = RowView(RowsBefore[j])

(***************************************************************************)
(* C7  After an edit of the time field of the segment row at index i to    *)
(* the time T, raw line i stores the local time max(0, T - offset), where  *)
(* offset is the Start time of the nearest preceding separator with a      *)
(* Start marker (0 if none), and the row displays T whenever T >= offset.  *)
(***************************************************************************)
C7_TimeEditRelative ==
    EditedSegment("time") =>
        LET old    == split(before, NL)
            new    == split(text, NL)
            i      == op.index + 1
            offset == OffsetInEffect(old, MarkedLines(old), i)
            T      == parseTimeToSeconds(DisplayedStart(op.value))
            stored == parseTimeToSeconds(SegmentMatch(new[i], view).rawStartTime)
        IN  /\ stored = IF T > offset THEN T - offset ELSE 0
            /\ stored >= 0
            /\ T >= offset =>
                  /\ rows[i].type = "segment"
                  /\ parseTimeToSeconds(DisplayedStart(rows[i].time)) = T

(***************************************************************************)
(* Vocabulary of the SRT properties, read from the exported file: a cue is *)
(* four lines, the counter, the timing, the text and an empty line         *)
(***************************************************************************)
\* the seconds of an SRT timestamp HH:MM:SS,mmm
SrtSeconds(stamp) ==
    parseTimeToSeconds(SubSeq(stamp, 1, IndexOfChar(stamp, ",", 1) - 1))

\* start and end of a timing line "start --> end"
TimingStart(timing) ==
    SrtSeconds(SubSeq(timing, 1, IndexOfChar(timing, " ", 1) - 1))

TimingEnd(timing) ==
    SrtSeconds(From(timing, IndexOfChar(timing, " ", 1) + Len(Arrow)))

\* the text of the cue of a segment row
CueText(row) ==
    IF row.speaker = <<>> THEN row.content
    ELSE row.speaker \o <<":", " ">> \o row.content

(***************************************************************************)
(* C8  In the exported SRT file the cue of every segment row ends strictly *)
(* after it starts: its start is the corrected start of the row, and its   *)
(* end is the start plus 5 seconds when the row has no end time, the start *)
(* plus 3 seconds when the end time of the row is not after its start, and *)
(* the corrected end time of the row otherwise.                            *)
(***************************************************************************)
C8_CueEndAfterStart ==
    download.kind = "srt" =>
        LET lines == split(download.body, NL)
            segs  == SegmentPositions(rows)
        IN  \A j \in 1..Cardinality(segs) :
                LET row      == rows[Nth(segs, j)]
                    start    == TimingStart(lines[4 * j - 2])
                    end      == TimingEnd(lines[4 * j - 2])
                    rowStart == parseTimeToSeconds(DisplayedStart(row.time))
                    rowEnd   == parseTimeToSeconds(DisplayedEnd(row.time))
                IN  /\ end > start
                    /\ start = rowStart
                    /\ end = IF DisplayedEnd(row.time) = <<>> THEN start + 5
                             ELSE IF rowEnd <= rowStart THEN start + 3
                             ELSE rowEnd

C8_Witness ==
    /\ download.kind = "srt"
    /\ \E k \in 1..Len(rows) :
          rows[k].type = "segment" /\ DisplayedEnd(rows[k].time) = <<>>
    /\ \E k \in 1..Len(rows) :
          /\ rows[k].type = "segment" /\ DisplayedEnd(rows[k].time) # <<>>
          /\ parseTimeToSeconds(DisplayedEnd(rows[k].time))
                <= parseTimeToSeconds(DisplayedStart(rows[k].time))
    /\ \E k \in 1..Len(rows) :
          /\ rows[k].type = "segment" /\ DisplayedEnd(rows[k].time) # <<>>
          /\ parseTimeToSeconds(DisplayedEnd(rows[k].time))
                > parseTimeToSeconds(DisplayedStart(rows[k].time))

(***************************************************************************)
(* C9  The exported SRT file holds exactly one cue for each segment row    *)
(* and none for any other row, in row order, and the counters of the cues  *)
(* are 1, 2, ..., n, where n is the number of segment rows.                *)
(***************************************************************************)
C9_OneCuePerSegment ==
    download.kind = "srt" =>
        LET lines == split(download.body, NL)
            segs  == SegmentPositions(rows)
            n     == Cardinality(segs)
        IN  /\ Len(lines) = 4 * n + 1
            /\ lines[4 * n + 1] = <<>>
            /\ \A j \in 1..n :
                  /\ lines[4 * j - 3] = toString(j)
                  /\ TimingStart(lines[4 * j - 2])
                        = parseTimeToSeconds(DisplayedStart(rows[Nth(segs, j)].time))
                  /\ lines[4 * j - 1] = CueText(rows[Nth(segs, j)])
                  /\ lines[4 * j] = <<>>

C9_Witness ==
    /\ download.kind = "srt"
    /\ Len(rows) = 3
    /\ rows[1].type = "separator"
    /\ rows[2].type = "segment"
    /\ rows[3].type = "segment"
    /\ rows[2].content # rows[3].content

(***************************************************************************)
(* C10  A segment row whose speaker token (bold markers stripped) equals,  *)
(* ignoring letter case, the id of an entry of the speaker map carries, in *)
(* its speaker and in its canonical line, the name of the first such entry *)
(* in map order; a token that matches no id is kept unchanged; kind, time  *)
(* and content of every row are those of the parse without a speaker map.  *)
(***************************************************************************)
C10_SpeakerMapped ==
    LET unmapped == useMemoRows(text, <<>>, view)
    IN  /\ Len(rows) = Len(unmapped)
        /\ \A k \in 1..Len(rows) :
              LET token == unmapped[k].speaker
                  ids   == {j \in 1..Len(speakers) :
                               toLowerCase(speakers[j].id) = toLowerCase(token)}
                  first == CHOOSE j \in ids : \A i \in ids : j <= i
                  name  == IF ids = {} THEN token ELSE speakers[first].name
              IN  /\ rows[k].type = unmapped[k].type
                  /\ rows[k].time = unmapped[k].time
                  /\ rows[k].content = unmapped[k].content
                  /\ rows[k].type = "segment" =>
                        /\ rows[k].speaker = name
                        /\ rows[k].rawLine
                              = <<"[">> \o rows[k].time \o <<"]", " ">>
                                  \o (IF name = <<>> THEN <<>>
                                      ELSE name \o <<":", " ">>)
                                  \o rows[k].content

C10_Witness ==
    LET unmapped == useMemoRows(text, <<>>, view)
    IN  /\ Len(speakers) = 2
        /\ \E k \in 1..Len(rows) :
              /\ rows[k].type = "segment"
              /\ unmapped[k].speaker = speakers[2].id
              /\ unmapped[k].speaker # speakers[1].id
              /\ rows[k].speaker = speakers[1].name
        /\ \E k \in 1..Len(rows) :
              /\ rows[k].type = "segment"
              /\ unmapped[k].speaker # <<>>
              /\ rows[k].speaker = unmapped[k].speaker
        /\ \E k \in 1..Len(rows) :
              rows[k].type = "segment" /\ rows[k].speaker = <<>>

(***************************************************************************)
(* C11  Whenever an import parses zero usable rows from the file (an empty *)
(* file, only blank lines, only a header, only lines starting with "---",  *)
(* only lines with neither time nor content), the failure is reported to   *)
(* the user and the transcript text is unchanged.                          *)
(***************************************************************************)
C11_ZeroRowsReported ==
    (op.name = "handleImportCSV" /\ op.validRowsCount = 0)
        => (op.alerted /\ text = before)

\* the same for the files that are not empty
C11_NonEmptyZeroRowsReported ==
    (op.name = "handleImportCSV" /\ op.validRowsCount = 0 /\ Len(op.file) > 0)
        => (op.alerted /\ text = before)

(***************************************************************************)
(* Vocabulary of the import properties, read from the imported file        *)
(***************************************************************************)
\* the lines of the file of the last import
FileLines ==
    NormalizedLines(IF Len(op.file) > 0 /\ op.file[1] = BOM THEN Tail(op.file)
                    ELSE op.file)

\* the values of a line by its columns
LineColumns(line) == ImportColumns(parseLine(trim(line)))

HasTimeOrContent(line) ==
    \/ Len(trim(LineColumns(line).time)) > 0
    \/ Len(trim(LineColumns(line).content)) > 0

StartsWithDashes(line) == startsWith(trim(line), Dashes)

\* the first column, in lower case and without outer quotes, is the header
\* word or starts with it
FirstColumnIsTimeWord(line) ==
    LET c0 == StripOuterQuotes(trim(toLowerCase(parseLine(trim(line))[1])))
    IN  c0 = HeaderTimeLocal \/ startsWith(c0, HeaderTime)

\* the transcript lines that a confirmed import has emitted
EmittedLines ==
    LET ls == split(text, NL)
    IN  SubSeq(ls, 1, Len(ls) - 1)

EndsWith(s, suffix) ==
    Len(suffix) <= Len(s) /\ SubSeq(s, Len(s) - Len(suffix) + 1, Len(s)) = suffix

\* the import of the file reports Cardinality(data) rows and, once
\* confirmed, has emitted one line for each line of the file in data, in
\* file order
EmitsOneLineEach(data) ==
    /\ op.validRowsCount = Cardinality(data)
    /\ op.confirmed =>
          /\ Len(EmittedLines) = Cardinality(data)
          /\ \A j \in 1..Cardinality(data) :
                EndsWith(EmittedLines[j],
                         trim(LineColumns(FileLines[Nth(data, j)]).content))

HeaderFirstImported ==
    /\ op.name = "handleImportCSV"
    /\ Len(op.file) > 0
    /\ FileLines[1] = CsvHeader

(***************************************************************************)
(* C12  An import of a CSV file whose first line is the header             *)
(* Time,Speaker,Content skips that line and emits exactly one transcript   *)
(* line, in file order, for each following line that has a time or a       *)
(* content value; the row count reported equals the number of lines        *)
(* emitted.                                                                *)
(***************************************************************************)
C12_EveryFollowingLineImported ==
    HeaderFirstImported =>
        EmitsOneLineEach({k \in 2..Len(FileLines) :
                             HasTimeOrContent(FileLines[k])})

\* C12 as it holds: the lines that follow the header and emit a transcript
\* line are those with a time or a content value that do not start with
\* "---" and are not, among the first five lines of the file, lines whose
\* first column starts with the header word
C12_DataLinesImported ==
    HeaderFirstImported =>
        EmitsOneLineEach({k \in 2..Len(FileLines) :
                             /\ HasTimeOrContent(FileLines[k])
                             /\ ~StartsWithDashes(FileLines[k])
                             /\ ~(k <= 5 /\ FirstColumnIsTimeWord(FileLines[k]))})

\* a confirmed import of a header and two data lines
C12_Witness ==
    /\ HeaderFirstImported
    /\ op.confirmed
    /\ Len(FileLines) = 3
    /\ op.validRowsCount = 2
    /\ Len(EmittedLines) = 2

(***************************************************************************)
(* C13  The transcript text is replaced by a CSV import, shortened by a    *)
(* bulk delete or cleared only in a step in which the user has confirmed   *)
(* the operation; when the user declines, the text and the row selection   *)
(* are unchanged; a confirmed import replaces the whole text in one step   *)
(* by exactly the imported string.                                         *)
(***************************************************************************)
AsksConfirmation(name) ==
    name \in {"handleImportCSV", "handleDeleteSelected",
              "handleClearTranscription"}

C13_ConfirmedOnly ==
    [][/\ text' # text => (AsksConfirmation(op'.name) /\ op'.confirmed)
       /\ (op' # op /\ AsksConfirmation(op'.name) /\ ~op'.confirmed)
            => (text' = text /\ selectedIndices' = selectedIndices)
       /\ (op' # op /\ op'.name = "handleImportCSV" /\ op'.confirmed)
            => text' = ImportCSV(op'.file).importString]_vars

\* a bulk delete that the user has declined
C13_Witness ==
    /\ op.name = "handleDeleteSelected"
    /\ ~op.confirmed
    /\ selectedIndices # {}
    /\ Len(text) > 0

(***************************************************************************)
(* C14  Every value on a data line of the CSV export is quote-wrapped with *)
(* its double quotes doubled: the field parser of the importer, applied to *)
(* an exported data line, returns exactly three columns, the time, the     *)
(* speaker and the content of the row (for a separator or a raw row two    *)
(* empty columns and the line).                                            *)
(***************************************************************************)
\* the data lines of the exported file: between the header and the last "\n"
ExportedDataLines ==
    LET ls == split(Tail(download.body), NL)
    IN  SubSeq(ls, 2, Len(ls) - 1)

\* the three values that the export writes for a row
WrittenValues(row) ==
    IF row.type = "segment" THEN <<row.time, row.speaker, row.content>>
    ELSE IF row.type = "separator" THEN <<<<>>, <<>>, row.rawLine>>
    ELSE <<<<>>, <<>>, row.content>>

C14_ExportedFieldsParseBack ==
    download.kind = "csv" =>
        LET written == SelectSeq(rows, CsvWritten)
        IN  /\ Len(ExportedDataLines) = Len(written)
            /\ \A k \in 1..Len(written) :
                  parseLine(ExportedDataLines[k]) = WrittenValues(written[k])

\* the same for the rows whose speaker holds no double quote
C14_FieldsWithoutSpeakerQuote ==
    download.kind = "csv" =>
        LET written == SelectSeq(rows, CsvWritten)
        IN  /\ Len(ExportedDataLines) = Len(written)
            /\ \A k \in 1..Len(written) :
                  (\A j \in 1..Len(written[k].speaker) :
                       written[k].speaker[j] # Quote)
                    => parseLine(ExportedDataLines[k]) = WrittenValues(written[k])

(***************************************************************************)
(* C15  After an edit of the raw row at index i to the value v, raw line i *)
(* is v verbatim, every other raw line is unchanged and the number of raw  *)
(* lines is unchanged, so that every other row keeps its index.            *)
(***************************************************************************)
RawRowEdited ==
    /\ op.name = "updateRow"
    /\ RowsBefore[op.index + 1].type = "raw"

C15_RawEditFrame ==
    RawRowEdited =>
        LET old == split(before, NL)
            new == split(text, NL)
        IN  /\ Len(new) = Len(old)
            /\ new[op.index + 1] = op.value
            /\ \A k \in 1..Len(old) : k # op.index + 1 => new[k] = old[k]

\* the same for the values without a line break
C15_RawEditFrameOneLine ==
    (RawRowEdited /\ \A j \in 1..Len(op.value) : op.value[j] # NL) =>
        LET old == split(before, NL)
            new == split(text, NL)
        IN  /\ Len(new) = Len(old)
            /\ new[op.index + 1] = op.value
            /\ \A k \in 1..Len(old) : k # op.index + 1 => new[k] = old[k]

(***************************************************************************)
(* C16  For each line of the file that is not blank, not a skipped header  *)
(* and does not start with "---", the import derives time, speaker and     *)
(* content from the parsed columns (three or more: time, speaker, and the  *)
(* third and later columns joined by commas; two: time and content; one:   *)
(* content) and emits "[time] speaker: content" when the time is not       *)
(* empty (brackets added unless the time starts with one, "speaker: "      *)
(* left out when the speaker is empty), the bare content when only the     *)
(* content is not empty, and nothing when both are empty.                  *)
(***************************************************************************)
\* what the policy emits for a line, with the "\n" that ends it
PolicyLine(line) ==
    LET cols == parseLine(trim(line))
        n    == Len(cols)
        t    == trim(IF n >= 2 THEN cols[1] ELSE <<>>)
        s    == trim(IF n >= 3 THEN cols[2] ELSE <<>>)
        c    == trim(IF n >= 3 THEN join(SubSeq(cols, 3, n), <<",">>)
                     ELSE cols[n])
    IN  IF Len(t) > 0
        THEN (IF t[1] = "[" THEN t ELSE <<"[">> \o t \o <<"]">>) \o <<" ">>
               \o (IF Len(s) > 0 THEN s \o <<":", " ">> ELSE <<>>)
               \o c \o <<NL>>
        ELSE IF Len(c) > 0 THEN c \o <<NL>>
        ELSE <<>>

\* the positions of the lines that the policy applies to
PolicyLines ==
    {k \in 1..Len(FileLines) :
        /\ Len(trim(FileLines[k])) > 0
        /\ ~StartsWithDashes(FileLines[k])
        /\ ~(k <= 5 /\ FirstColumnIsTimeWord(FileLines[k]))}

C16_ColumnPolicy ==
    (op.name = "handleImportCSV" /\ Len(op.file) > 0) =>
        LET out == [j \in 1..Cardinality(PolicyLines) |->
                       PolicyLine(FileLines[Nth(PolicyLines, j)])]
        IN  /\ op.validRowsCount
                  = Cardinality({j \in 1..Len(out) : Len(out[j]) > 0})
            /\ op.confirmed => text = Flatten(out)

\* a confirmed import of a file with a line of four columns, whose last two
\* columns are emitted joined by a comma
C16_Witness ==
    /\ op.name = "handleImportCSV"
    /\ op.confirmed
    /\ \E k \in PolicyLines : Len(parseLine(trim(FileLines[k]))) = 4
    /\ \E j \in 1..Len(EmittedLines) :
          EmittedLines[j] = <<"[", "0", ":", "0", "9", "]", " ", "a", ",", "b">>

(***************************************************************************)
(* C17  Classification works on the trimmed line for every kind of row: a  *)
(* line that matches the segment grammar once its leading and trailing     *)
(* whitespace is removed is a segment row, as separator and blank          *)
(* detection use the trimmed line.                                         *)
(***************************************************************************)
C17_TrimmedClassification ==
    LET lines == split(text, NL)
    IN  \A k \in 1..Len(lines) :
            /\ IsSeparatorLine(lines[k]) => rows[k].type = "separator"
            /\ IsBlankLine(lines[k]) => rows[k].type = "raw"
            /\ SegmentMatch(trim(lines[k]), view).ok => rows[k].type = "segment"

\* the same with the segment grammar matched against the line as it is
C17_SegmentMatchedUntrimmed ==
    LET lines == split(text, NL)
    IN  \A k \in 1..Len(lines) :
            /\ IsSeparatorLine(lines[k]) => rows[k].type = "separator"
            /\ IsBlankLine(lines[k]) => rows[k].type = "raw"
            /\ SegmentMatch(lines[k], view).ok => rows[k].type = "segment"

(***************************************************************************)
(* C18  For every whole number of seconds s with 0 <= s < 100 hours,       *)
(* parseTimeToSeconds(formatSecondsToTime(s)) = s; formatSecondsToTime(s)  *)
(* is zero-padded MM:SS, with an HH: field in front exactly when           *)
(* s >= 3600; the formatted time matches the time grammar of a segment     *)
(* line.                                                                   *)
(***************************************************************************)
TwoDigits(n) == <<DigitChar(n \div 10), DigitChar(n % 10)>>

C18_TimeRoundTrip ==
    /\ (op.name = "formatSecondsToTime" /\ op.totalSeconds < 360000) =>
          LET s == op.totalSeconds
          IN  /\ op.timeStr
                    = (IF s >= 3600 THEN TwoDigits(s \div 3600) \o <<":">>
                       ELSE <<>>)
                        \o TwoDigits((s % 3600) \div 60) \o <<":">>
                        \o TwoDigits(s % 60)
              /\ TimeLenAt(op.timeStr, 1) = Len(op.timeStr)
    /\ (op.name = "parseTimeToSeconds" /\ op.formatted < 360000) =>
          op.totalSeconds = op.formatted

\* a time of an hour or more, below 100 hours, formatted and parsed
C18_Witness ==
    /\ op.name = "parseTimeToSeconds"
    /\ op.formatted >= 3600
    /\ op.formatted < 360000
    /\ Len(op.timeStr) = 8

\* the entry of the settings' speaker list that a speaker token selects: the
\* first whose id equals the token ignoring case, 0 if there is none
SettingsSpeaker(token) == SpeakerFind(settings.speakers, token)

\* C19: in the application, whenever the settings hold a speaker whose id
\* matches the speaker token of a segment line ignoring case, the row of that
\* line, as shown and as exported, carries the name of that speaker
C19_SettingsSpeakersReachRows ==
    LET lines == split(text, NL)
    IN  \A k \in 1..Len(lines) :
           LET match == SegmentMatch(lines[k], view)
           IN  (/\ Len(trim(lines[k])) > 0
                /\ ~IsSeparatorLine(lines[k])
                /\ match.ok
                /\ SettingsSpeaker(match.speaker) > 0)
               => rows[k].speaker
                    = settings.speakers[SettingsSpeaker(match.speaker)].name

\* a speaker was added whose id is the token of a segment line of the text
C19_SpeakerAddedForLine ==
    /\ op.name = "addSpeaker"
    /\ \E k \in 1..Len(rows) :
          /\ rows[k].type = "segment"
          /\ SettingsSpeaker(SegmentMatch(split(text, NL)[k], view).speaker) > 0

\* vocabulary of the appended files: op and before hold the file, the start
\* time and the transcript of the last handleStart while its chunks arrive
Started == op.name = "handleStart"

\* the transcript was not empty, or a start time other than 00:00 and 0:00
\* was set (an empty field sets none)
SeparatorDue == Len(before) > 0 \/ hasOffset(op.startTime)

\* the separator line that names the file and the start time
FileSeparator ==
    <<"-", "-", "-", " ", "[", "\\u63a5", "\\u7e8c", "\\u6a94",
      "\\u6848", ":", " ">>
      \o op.file \o <<" ", "|", " ", "S", "t", "a", "r", "t", ":", " ">>
      \o op.startTime \o <<"]", " ", "-", "-", "-">>

\* the number of lines of the transcript before the start
LinesBefore == Len(split(before, NL))

\* the positions of the lines that the chunks of the file make up
StreamedLines ==
    IF SeparatorDue THEN (LinesBefore + 4)..Len(split(text, NL))
    ELSE 1..Len(split(text, NL))

\* the separator is on a line of its own, after the earlier transcript and
\* before every chunk of the file
SeparatorFirst ==
    LET lines == split(text, NL)
    IN  /\ Len(lines) >= LinesBefore + 4
        /\ SubSeq(lines, 1, LinesBefore) = split(before, NL)
        /\ lines[LinesBefore + 1] = <<>>
        /\ lines[LinesBefore + 2] = FileSeparator
        /\ lines[LinesBefore + 3] = <<>>

\* the segments of the file are displayed at local time plus start time
StreamedAtStartTime ==
    LET lines == split(text, NL)
    IN  \A k \in StreamedLines :
           (k <= Len(rows) /\ rows[k].type = "segment") =>
              parseTimeToSeconds(DisplayedStart(rows[k].time))
                 = parseTimeToSeconds(SegmentMatch(lines[k], view).rawStartTime)
                     + parseTimeToSeconds(op.startTime)

\* the rows of the earlier transcript are displayed as before the start
EarlierRowsKept ==
    LET earlier == useMemoRows(before, speakers, view)
    IN  \A k \in 1..LinesBefore :
           /\ k <= Len(rows)
           /\ rows[k].type = earlier[k].type
           /\ rows[k].time = earlier[k].time

\* C20: when a transcription is started on a non-empty transcript or with a
\* start time other than 00:00 and 0:00, the separator line naming the file
\* and the start time is appended on a line of its own before any chunk of
\* the file; once the file is transcribed its segments are displayed at their
\* local time plus that start time, and the rows of earlier files keep their
\* displayed times
C20_AppendedFileOffset ==
    (Started /\ SeparatorDue) =>
        /\ SeparatorFirst
        /\ status = "completed" => StreamedAtStartTime
        /\ EarlierRowsKept

\* the separator and the earlier rows alone, whatever the start time
C20_SeparatorAndEarlierRows ==
    (Started /\ SeparatorDue) => SeparatorFirst /\ EarlierRowsKept

\* the start time has the form that the separator pattern reads, and the name
\* of the file holds no Start marker of its own
StartTimeRead ==
    /\ TimeLenAt(op.startTime, 1) = Len(op.startTime)
    /\ Len(op.startTime) > 0
    /\ separatorMatch(op.file \o <<" ", "|">>) = NoMatch

\* the displayed times of the file's segments under a start time that is read
C20_ReadStartTimeApplied ==
    (Started /\ SeparatorDue /\ StartTimeRead /\ status = "completed")
        => StreamedAtStartTime

\* a second file was transcribed after a first one
C20_SecondFileCompleted ==
    /\ Started /\ status = "completed" /\ starts = 2
    /\ Len(before) > 0
    /\ \E k \in StreamedLines : k <= Len(rows) /\ rows[k].type = "segment"

\* C21: the wait for a file in state PROCESSING ends within 60 status polls,
\* whatever the status requests come to: it has returned the URI, thrown the
\* failure of the file, or thrown 'File processing timed out' by then
C21_WaitWithinPollLimit == upload.polls <= PollLimit

\* the same wait when every status request is answered with a state: the
\* polls are the attempts
C21_AnsweredPollsCounted ==
    upload.pc = "polling" => upload.attempts <= upload.polls

\* the languages selected, as a set
SelectedLanguages(s) == {s.language[k] : k \in 1..Len(s.language)}

\* a toggle that the panel rejects: of the only language, or of a fourth
RejectedToggle(s, langId) ==
    \/ SelectedLanguages(s) = {langId}
    \/ langId \notin SelectedLanguages(s) /\ Cardinality(SelectedLanguages(s)) >= 3

\* C22: from the default selection of one language on, every sequence of
\* language toggles leaves at least 1 and at most 3 languages selected, and a
\* rejected toggle (of the last language, or of a fourth) leaves the settings
\* unchanged
C22_OneToThreeLanguages ==
    /\ [](/\ Cardinality(SelectedLanguages(settings)) \in 1..3
          /\ Len(settings.language) = Cardinality(SelectedLanguages(settings)))
    /\ [][(op'.name = "toggleLanguage" /\ RejectedToggle(settings, op'.langId))
             => settings' = settings]_vars

\* a fourth language was toggled with three selected
C22_FourthRejected ==
    /\ op.name = "toggleLanguage"
    /\ Len(settings.language) = 3
    /\ op.langId \notin SelectedLanguages(settings)

\* the parts cover the file: consecutive non-empty byte ranges from 0 to size
PartsCoverFile(chunks, size) ==
    /\ Len(chunks) >= 1
    /\ chunks[1].start = 0
    /\ chunks[Len(chunks)].end = size
    /\ \A k \in 1..Len(chunks) : chunks[k].start < chunks[k].end
    /\ \A k \in 1..(Len(chunks) - 1) : chunks[k].end = chunks[k + 1].start

\* every part but the last has one size, of 500 KB at least
PartsOfChunkSize(chunks) ==
    \A k \in 1..(Len(chunks) - 1) :
        /\ chunks[k].end - chunks[k].start >= MinChunkSize
        /\ chunks[k].end - chunks[k].start = chunks[1].end - chunks[1].start

\* part k, counted from 0, is labelled k x minutes x 60 seconds
PartsLabelled(chunks, minutes) ==
    \A k \in 1..Len(chunks) :
        IF minutes >= 0
        THEN parseTimeToSeconds(chunks[k].startTime) = (k - 1) * minutes * 60
        ELSE chunks[k].startTime
               = PartStartTime([nan |-> FALSE, v |-> (k - 1) * minutes * 60])

\* C23: for every file of positive size and every content of the segment
\* length field, handleSplit yields consecutive, non-overlapping, non-empty
\* byte ranges from byte 0 to the file size, all but the last of the computed
\* chunk size of at least 500 KB, part k labelled k x splitMinutes x 60 seconds
C23_PartsCoverFile ==
    op.name = "handleSplit" =>
        /\ PartsCoverFile(op.chunks, op.size)
        /\ PartsOfChunkSize(op.chunks)
        /\ ~op.splitMinutes.nan
        /\ PartsLabelled(op.chunks, op.splitMinutes.v)

\* the same for a segment length field that holds a number
C23_NumericLengthPartsCoverFile ==
    (op.name = "handleSplit" /\ ~op.splitMinutes.nan) =>
        /\ PartsCoverFile(op.chunks, op.size)
        /\ PartsOfChunkSize(op.chunks)
        /\ PartsLabelled(op.chunks, op.splitMinutes.v)

\* a file was split into three parts or more
C23_ThreeParts == op.name = "handleSplit" /\ Len(op.chunks) >= 3

\* the runs that have ended
Ended == {r \in 1..Len(runs) : runs[r].pc = "done"}

\* stop was pressed while run r was streaming
StopPressed(r) == runs[r].stopAt >= 0

\* C24: a run during whose streaming the user pressed stop ends with status
\* 'stopped', never 'completed'; a run ends with 'completed' only when its
\* stream was consumed to the end without abort
C24_StoppedNotCompleted ==
    \A r \in Ended :
        /\ StopPressed(r) => runs[r].outcome = "stopped"
        /\ runs[r].outcome = "completed" =>
              runs[r].chunks = <<>> /\ ~runs[r].aborted

\* without a press of stop, completed means consumed to the end
C24_UnstoppedCompletedAtEnd ==
    \A r \in Ended :
        (~StopPressed(r) /\ runs[r].outcome = "completed") =>
            runs[r].chunks = <<>> /\ ~runs[r].aborted

\* C25: at most one run is in progress at any time, and while a run streams
\* the abort controller in the ref is that run's, so that stop aborts it
C25_OneRunInProgress ==
    /\ Cardinality(InProgress(runs)) <= 1
    /\ \A r \in 1..Len(runs) :
          runs[r].pc = "streaming" => abortControllerRef = r

\* C26: once stop has been pressed while a run streams, no further chunk of
\* that run is appended to the transcript
C26_NoChunkAfterStop ==
    \A r \in 1..Len(runs) : StopPressed(r) => runs[r].delivered = runs[r].stopAt

\* once the signal of a run is aborted, no further chunk of it is appended
C26_NoChunkAfterAbort ==
    \A r \in 1..Len(runs) :
        runs[r].abortAt >= 0 => runs[r].delivered = runs[r].abortAt

\* while a single run is in progress, a press of stop aborts it
C26_SingleRunStopAborts ==
    \A r \in 1..Len(runs) :
        (StopPressed(r) /\ Len(runs) = 1) => runs[r].aborted

\* s is t with something appended at its end, or t itself
AppendedTo(t, s) == Len(s) >= Len(t) /\ SubSeq(s, 1, Len(t)) = t

\* C27: while status is uploading or transcribing the transcript changes only
\* by appending at its end: no row edit, bulk delete, clear or CSV import
\* replaces or shortens it
C27_OnlyAppendedDuringRun == [][RunStatus => AppendedTo(text, text')]_vars

\* the same for the fields of the rows alone: no row edit while transcribing
C27_NoRowEditWhileTranscribing ==
    [][(status = "transcribing" /\ op'.name = "updateRow") => op' = op]_vars

\* the step is a confirmed bulk delete
ConfirmedDelete ==
    /\ selectedIndices # {}
    /\ op'.name = "handleDeleteSelected"
    /\ op'.confirmed

\* the positions, from 1, of the lines that are not selected
KeptLines == {k \in 1..Len(split(text, NL)) : (k - 1) \notin selectedIndices}

\* the position after the delete of the kept line k
PositionAfter(k) == Cardinality({j \in KeptLines : j <= k})

\* the lines after the step are the lines that were not selected, in their
\* order (the empty text if none is left), and nothing is selected
DeletedExactlySelected ==
    /\ selectedIndices' = {}
    /\ IF KeptLines = {} THEN text' = <<>>
       ELSE LET lines == split(text, NL)
                newLines == split(text', NL)
            IN  /\ Len(newLines) = Cardinality(KeptLines)
                /\ \A k \in KeptLines : newLines[PositionAfter(k)] = lines[k]

\* every segment row that remains displays the time it displayed before
RemainingTimesKept ==
    \A k \in KeptLines :
        rows[k].type = "segment" =>
            /\ PositionAfter(k) <= Len(rows')
            /\ rows'[PositionAfter(k)].time = rows[k].time

\* C28: a confirmed bulk delete removes exactly the selected raw lines, keeps
\* the others in their order and empties the selection, and every segment row
\* that remains displays the same time as before the delete
C28_DeleteKeepsLinesAndTimes ==
    [][ConfirmedDelete => (DeletedExactlySelected /\ RemainingTimesKept)]_vars

\* the first half alone: the lines removed, the order kept, the selection
\* emptied
C28_DeletesExactlySelected == [][ConfirmedDelete => DeletedExactlySelected]_vars

\* the times are kept when no separator row is among the selected rows
C28_TimesKeptWithoutSeparator ==
    [][(ConfirmedDelete
        /\ \A i \in selectedIndices :
              i < Len(rows) => rows[i + 1].type # "separator")
       => RemainingTimesKept]_vars

\* the ids of the speaker map are pairwise distinct
SpeakerIdsDistinct ==
    \A i, j \in 1..Len(settings.speakers) :
        settings.speakers[i].id = settings.speakers[j].id => i = j

\* every entry of the speaker map has the id that its label in the list shows
SpeakerIdsAreLabels ==
    \A i \in 1..Len(settings.speakers) :
        settings.speakers[i].id = SpeakerLabel(i - 1)

\* C29: after any sequence of adding and removing speakers the ids of the
\* speaker map are pairwise distinct and each id equals the Speaker N label
\* shown next to its entry
C29_IdsDistinctAndLabelled == SpeakerIdsDistinct /\ SpeakerIdsAreLabels

\* the entry that an add appends has the id that its own label shows
C29_AddedIdIsItsLabel ==
    (op.name = "addSpeaker" /\ Len(trim(op.newSpeakerName)) > 0)
        => /\ settings.speakers # <<>>
           /\ settings.speakers[Len(settings.speakers)].id
                 = SpeakerLabel(Len(settings.speakers) - 1)

\* every selected index is the index of a row
SelectionWithinRows == \A i \in selectedIndices : i < Len(rows)

\* across a step that is not a row edit, an index that stays selected denotes
\* the same raw line
SelectedLinesKept ==
    op'.name # "updateRow" =>
        LET lines == split(text, NL)
            newLines == split(text', NL)
        IN  \A i \in selectedIndices \cap selectedIndices' :
                /\ i < Len(lines)
                /\ i < Len(newLines)
                /\ lines[i + 1] = newLines[i + 1]

\* C30: in every reachable state every selected index is the index of an
\* existing row, and it still denotes the raw line that the user selected
C30_SelectionDenotesRows ==
    [](SelectionWithinRows) /\ [][SelectedLinesKept]_vars

\* the toggles and the bulk delete keep the selection within the rows
C30_SelectionOpsKeepWithinRows ==
    [][(SelectionWithinRows
        /\ op'.name \in {"toggleSelect", "toggleSelectAll", "handleDeleteSelected"})
       => SelectionWithinRows']_vars

====
